---- MODULE Spec2Model ----
(***************************************************************************)
(* Model of the pagination core and the request layer of scrypyfall:       *)
(*   foundation.py  ScrypyfallIterableFoundation (_get_data_page, load,     *)
(*                  __iter__, __next__, __getitem__), ScrypyfallList,       *)
(*                  ScrypyfallCollection, ScrypyfallCatalog, make_request   *)
(*   cards/_cards.py  CardsCollection (_get_data_page override, __init__),  *)
(*                  CardsNamed.__init__, Cards.named                        *)
(*   bulk_data/_bulk_data.py  BulkDataItem.get                              *)
(*   exceptions.py  ScrypyfallException                                     *)
(* The service is the environment: every request is answered by one of the *)
(* payloads it can send, or fails.                                         *)
(***************************************************************************)
EXTENDS Integers, Sequences, FiniteSets, TLC

\* ---------------------------------------------------------------- bounds
MaxPages == 2        \* page URLs the service can chain: 1 (base) .. MaxPages
MaxPageLen == 1      \* elements in the data of one payload
MaxTotal == 2        \* largest total / total_values the service reports
MaxData == 2         \* accumulated elements the model follows
MaxNotFound == 1     \* entries in a payload's not_found
EqPages == 3         \* pages of the chain served to an eager and a lazy resource
MaxParams == 1       \* parameters a caller passes to make_request
MaxQuery == 2        \* name=value pairs in the query of a next_page URL
MaxKeys == 2         \* keys in one identifier object of a collection lookup

\* ------------------------------------------------------- values
\* Python's None, for total and _next_page_url
None == 0 - 1

\* the resource's own URL (self.url); next_page URLs are 2, 3, ...
BaseURL == 1

\* element j of the data served from page URL u; <<u, 0>> is a single object
PageData(u, n) == [j \in 1..n |-> <<u, j>>]

NoValue == <<>>

\* ScrypyfallIterableFoundation.__init__, CardsCollection.__init__
FreshResource ==
    [data |-> <<>>, has_more |-> FALSE, total |-> None,
     iter_index |-> 0, next_page_url |-> None, not_found |-> <<>>]

\* the classes of paginated resource: the inherited _get_data_page
\* (search, named, rulings, oracle, symbology, sets) and CardsCollection's
Kinds == {"foundation", "collection"}

\* ------------------------------------------------------- the service
\* exceptions make_request lets through: undecodable body, non-200 status,
\* payload without 'object' / next_page without 'page'
Faults == {"RuntimeError", "ScrypyfallException", "KeyError"}

TotalValues == {None} \cup (0..MaxTotal)

\* decoded JSON bodies the service can answer a request for URL u with;
\* a field that is absent from the body is None / "absent"
\* (a total, when the body has one, counts at least the body's own data;
\* nf bounds not_found, which the collection endpoint alone sends)
ListPayloads(u, last, nf) ==
    {b \in [object : {"list"},
            data : {PageData(u, n) : n \in 0..MaxPageLen},
            has_more : {"true", "false"},
            next_page : {None} \cup {v \in BaseURL..last : v = u + 1},
            total_cards : TotalValues,
            total : {None},
            total_values : {None},
            not_found : {[j \in 1..n |-> <<0, j>>] : n \in 0..nf}] :
        b.total_cards = None \/ b.total_cards >= Len(b.data)}

ValuesPayloads(u) ==
    {b \in [object : {"collection", "catalog"},
            data : {PageData(u, n) : n \in 0..MaxPageLen},
            has_more : {"absent"},
            next_page : {None},
            total_cards : {None},
            total : {None},
            total_values : TotalValues,
            not_found : {<<>>}] :
        b.total_values = None \/ b.total_values >= Len(b.data)}

SinglePayloads(u) ==
    [object : {"card"},
     data : {<<>>},
     has_more : {"absent"},
     next_page : {None},
     total_cards : {None},
     total : {None},
     total_values : {None},
     not_found : {<<>>}]

Payloads(u, last, nf) ==
    ListPayloads(u, last, nf) \cup ValuesPayloads(u) \cup SinglePayloads(u)

\* what one request of a resource of class k to URL u can produce
Responses(k, u) ==
    [fault : {"none"}, url : {u},
     payload : Payloads(u, MaxPages,
                        IF k = "collection" THEN MaxNotFound ELSE 0)]
      \cup [fault : Faults, url : {u}, payload : SinglePayloads(u)]

\* ------------------------------------------------------- envelopes
\* ScrypyfallList.__init__
ScrypyfallList(obj) ==
    LET hm == (obj.has_more = "true")
    IN [shape |-> "list",
        data |-> obj.data,
        not_found |-> obj.not_found,
        has_more |-> hm,
        total |-> IF obj.total_cards # None THEN obj.total_cards
                  ELSE IF obj.total # None THEN obj.total
                  ELSE None,
        next_page_url |-> IF hm /\ obj.next_page # None THEN obj.next_page
                          ELSE None,
        total_values |-> None]

\* ScrypyfallCollection.__init__ / ScrypyfallCatalog.__init__
ScrypyfallValues(obj) ==
    [shape |-> obj.object,
     data |-> obj.data,
     not_found |-> <<>>,
     has_more |-> FALSE,
     total |-> None,
     next_page_url |-> None,
     total_values |-> IF obj.total_values # None THEN obj.total_values ELSE 0]

\* the tail of make_request: the classification of a decoded body
Classify(resp) ==
    IF resp.payload.object = "list" THEN ScrypyfallList(resp.payload)
    ELSE IF resp.payload.object \in {"collection", "catalog"}
         THEN ScrypyfallValues(resp.payload)
    ELSE [shape |-> "single",
          data |-> << <<resp.url, 0>> >>,
          not_found |-> <<>>,
          has_more |-> FALSE,
          total |-> None,
          next_page_url |-> None,
          total_values |-> None]

\* ------------------------------------------------------- the resource
VARIABLES
    kind,       \* class of the resource
    res,        \* data, has_more, total, _iter_index, _next_page_url, not_found
    pc,         \* where the caller's current operation stands
    op,         \* the operation that is running or has just ended
    payload,    \* load(**kwargs): whether kwargs holds 'payload'
    key,        \* __getitem__(key)
    ret,        \* value the operation returned
    err,        \* exception the operation raised, or "none"
    req,        \* the last step sent a request to the service
    got,        \* the envelope the last step merged, or NoEnvelope
    fetched,    \* a _get_data_page call has merged a response
    exhausted,  \* a merge has left has_more False
    pre,        \* the resource when load() was called
    covered,    \* resource[key] was called with total known, 0 <= key < total
    chain,      \* the pages the service serves to eager and lazy, by URL
    eager,      \* a resource that is loaded with load()
    lazy,       \* a resource that is constructed lazily, then traversed
    epc,        \* where the eager resource's load() stands
    lpc,        \* where the lazy resource's construction and traversal stand
    settings_headers,  \* settings.headers
    self_headers,      \* the accessor instance's headers
    self_data,         \* the accessor instance's data
    caller,     \* the operation that runs, or "none"
    args,       \* the arguments that operation was called with
    mpc,        \* where that operation stands
    call,       \* the arguments of the running make_request call
    outgoing,   \* filtered_params and combined_headers of the running call
    log,        \* throttle sleeps and network calls of the operation, in order
    answer,     \* the response the transport handed back
    result,     \* what the operation returned or raised
    lazy_loading,  \* settings.lazy_loading
    accessor,   \* the accessor that builds the resource, or "none"
    self_url,   \* the accessor instance's url, as path segments
    tcg_headers,   \* headers of the SetsTcgplayer object sets.tcgplayer
    cn,         \* num and lan of a CardsCodeNumber object
    byid,       \* id and data of the CardsById object cards._scryfall
    held        \* that object as it was before the running lookup, once returned

rvars == <<res, pc, op, payload, key, ret, err, req, got, fetched,
           exhausted, pre, covered>>

evars == <<chain, eager, lazy, epc, lpc>>

qvars == <<settings_headers, self_headers, self_data, caller, args, mpc, call,
           outgoing, log, answer, result>>

avars == <<lazy_loading, accessor>>

hvars == <<tcg_headers, cn, byid, held>>

ovars == <<self_url, hvars>>

vars == <<kind, avars, ovars, rvars, evars, qvars>>

\* ------------------------------------------------------- dictionaries
\* A Python dict is a function from its keys to their values.
EmptyDict == [k \in {} |-> 0]

\* d.update(e): the keys of e overwrite, the other keys of d stay.
DictUpdate(d, e) ==
    [k \in DOMAIN d \cup DOMAIN e |-> IF k \in DOMAIN e THEN e[k] ELSE d[k]]

\* `if d:` of a dict.
Truthy(d) == DOMAIN d # {}

\* Every dict whose keys are among keys and whose value at k is in F[k].
RECURSIVE DictsOf(_, _)
DictsOf(F, keys) ==
    IF keys = {} THEN {EmptyDict}
    ELSE LET k == CHOOSE x \in keys : TRUE
             rest == DictsOf(F, keys \ {k})
         IN  rest \cup {(k :> v) @@ d : d \in rest, v \in F[k]}

\* An argument or attribute that may be None.
Nothing == [some |-> FALSE]
Some(v) == [some |-> TRUE, value |-> v]

\* ------------------------------------------------------- request values
\* Header names, and the value each layer gives a header it sets.
HeaderNames == {"Accept", "User-Agent"}
HeaderDicts(layer) == DictsOf([n \in HeaderNames |-> {layer}], HeaderNames)

\* Parameter values carry their Python type.
ParamValues ==
    { [type |-> "bool", val |-> "True"],
      [type |-> "int",  val |-> "2"],
      [type |-> "str",  val |-> "json"],
      [type |-> "str",  val |-> "yaml"] }

\* accepted_params of an iterable cards accessor: 'pretty' of the
\* foundation, 'page' of the iterable foundation, 'format' of the accessor.
AcceptedParams ==
    [ pretty |-> [type |-> {"bool"}, options |-> Nothing],
      page   |-> [type |-> {"int"},  options |-> Nothing],
      format |-> [type |-> {"str"},  options |-> Some({"json", "text", "image"})] ]

\* Names a caller can pass: the accepted ones and one that is not.
ParamNames == DOMAIN AcceptedParams \cup {"order_by"}

ParamDicts ==
    {d \in DictsOf([n \in ParamNames |-> ParamValues], ParamNames) :
        Cardinality(DOMAIN d) <= MaxParams}

Methods == {"get", "post", "patch"}

\* make_request(params, headers, validate_params, method) as called, the
\* other arguments at their defaults.
Calls ==
    [ method : Methods,
      uri : {Nothing},
      overwrite_url : {FALSE},
      params : {Nothing} \cup {Some(d) : d \in ParamDicts},
      validate_params : BOOLEAN,
      headers : {Nothing} \cup {Some(d) : d \in HeaderDicts("call")},
      data_payload : {Nothing},
      json_payload : {Nothing} ]

\* The defaults of make_request's arguments.
NoCall ==
    [method |-> "get", uri |-> Nothing, overwrite_url |-> FALSE,
     params |-> Nothing, validate_params |-> TRUE, headers |-> Nothing,
     data_payload |-> Nothing, json_payload |-> Nothing]

\* accepted_params of the name-lookup accessor: the entries above and the
\* two name parameters.
NamedAcceptedParams ==
    [ exact |-> [type |-> {"str"}, options |-> Nothing],
      fuzzy |-> [type |-> {"str"}, options |-> Nothing] ] @@ AcceptedParams

\* Keyword arguments of a name lookup: each of exact and fuzzy is absent, a
\* string or not a string.
NamedKwargs ==
    DictsOf([n \in {"exact", "fuzzy"} |->
                {[type |-> "str", val |-> "Bolt"], [type |-> "int", val |-> "2"]}],
            {"exact", "fuzzy"})

\* allowed_keys of CardsCollection.__init__ and the type each demands.
AllowedKeys ==
    [ id |-> "str", mtgo_id |-> "int", multiverse_id |-> "int",
      oracle_id |-> "str", illustration_id |-> "str", name |-> "str",
      collector_number |-> "str", set |-> "str" ]

\* The most identifiers one collection lookup takes.
MaxIdentifiers == 75

\* Keys a caller puts in an identifier object: a string-typed and an
\* integer-typed allowed key, the three keys of the 'set' rule, and one key
\* that is not allowed.
IdentifierKeys == {"id", "mtgo_id", "name", "collector_number", "set", "lang"}

IdentifierValues ==
    { [type |-> "str", val |-> "war"], [type |-> "int", val |-> "15"],
      [type |-> "NoneType", val |-> "None"] }

\* An entry of the identifier list: a dict, or something that is not one.
Identifiers ==
    {[dict |-> FALSE, value |-> EmptyDict]}
    \cup {[dict |-> TRUE, value |-> d] :
            d \in {e \in DictsOf([k \in IdentifierKeys |-> IdentifierValues],
                                 IdentifierKeys) :
                      Cardinality(DOMAIN e) <= MaxKeys}}

NameIdentifier ==
    [dict |-> TRUE, value |-> ("name" :> [type |-> "str", val |-> "war"])]

\* Identifier lists: the empty one, and lists of 1, 2, MaxIdentifiers and
\* MaxIdentifiers + 1 entries that are name identifiers but for one entry,
\* the first or the last.
IdentifierLists ==
    {<<>>}
    \cup UNION {{[i \in 1..n |-> IF i = p THEN e ELSE NameIdentifier] :
                    p \in {1, n}, e \in Identifiers} :
                 n \in {1, 2, MaxIdentifiers, MaxIdentifiers + 1}}

\* Arguments of BulkDataItem.get: the identifier type and the format.
BulkKwargs ==
    { ("identifier_type" :> [type |-> "str", val |-> t])
        @@ ("format" :> [type |-> "str", val |-> f]) :
        t \in {"id", "type", "name"}, f \in {"json", "file"} }

\* The arguments of an accessor operation: keyword arguments, the headers
\* among them, identifiers.
NoArgs == [kwargs |-> EmptyDict, headers |-> Nothing, identifiers |-> <<>>]

\* A URL is the sequence of the segments of its path; a leading empty
\* segment is a leading '/'.
NoURL == <<>>

\* _build_base_url(_url): settings.protocol://settings.domain, then the path
BuildBaseUrl(path) == <<"api.scryfall.com">> \o path

\* _build_url(uri): the accessor's url, with the uri put after it when one
\* is given, less its leading '/'.
BuildUrl(url, uri) ==
    IF ~uri.some THEN url
    ELSE url \o (IF Head(uri.value) = "" THEN Tail(uri.value) ELSE uri.value)

\* str.lower() of the method names the callers use.
Lower(m) ==
    LET lowered == [ GET |-> "get", Delete |-> "delete", POST |-> "post",
                     Put |-> "put", PATCH |-> "patch" ]
    IN  IF m \in DOMAIN lowered THEN lowered[m] ELSE m

NoBody == [kind |-> "none", value |-> EmptyDict]

\* The transport function make_request calls for the method, or "none".
Verb(method) ==
    IF Lower(method) \in {"get", "delete"} THEN "GET"
    ELSE IF Lower(method) \in {"post", "put"} THEN "POST"
    ELSE "none"

\* The body make_request hands to the transport: requests_args['data'] or
\* requests_args['json'] of a post or put, nothing otherwise.
RequestBody(method, data_payload, json_payload) ==
    IF Lower(method) \notin {"post", "put"} THEN NoBody
    ELSE IF data_payload.some /\ Truthy(data_payload.value)
    THEN [kind |-> "form", value |-> data_payload.value]
    ELSE IF json_payload.some /\ Truthy(json_payload.value)
    THEN [kind |-> "json", value |-> json_payload.value]
    ELSE NoBody

\* What make_request hands to the transport.
NoOutgoing ==
    [url |-> NoURL, params |-> Nothing, headers |-> EmptyDict,
     verb |-> "none", body |-> NoBody]

\* ------------------------------------------------------- response values
StatusOK == 200
Statuses == {StatusOK, 404}

\* The query of a next_page URL: name=value pairs; a value is a string of
\* characters.
QueryPairs ==
    { <<"page", <<"2">>>>, <<"page", <<"1", "2">>>>, <<"page", <<>>>>,
      <<"page", <<"x">>>>, <<"q", <<"2">>>> }

RECURSIVE SeqsUpTo(_, _)
SeqsUpTo(S, n) ==
    IF n = 0 THEN {<<>>}
    ELSE LET shorter == SeqsUpTo(S, n - 1)
         IN  shorter \cup {Append(s, x) : s \in shorter, x \in S}

NextPageURLs == SeqsUpTo(QueryPairs, MaxQuery)

\* The fields a List body can carry.
ListFields ==
    [ data        |-> {<<"a", "b">>},
      has_more    |-> BOOLEAN,
      total_cards |-> {5},
      total       |-> {7},
      next_page   |-> NextPageURLs ]

ListBodies ==
    {("object" :> "list") @@ d : d \in DictsOf(ListFields, DOMAIN ListFields)}

\* Bodies that are JSON objects but not lists, 'object' present or not.
OtherFields ==
    [ object  |-> {"collection", "catalog", "card", "error"},
      details |-> {"not found"},
      download_uri |-> {"https://data/file.json"} ]

OtherBodies == DictsOf(OtherFields, DOMAIN OtherFields)

\* resp.json() of the body: it does not decode, or decodes to a JSON object,
\* or decodes to JSON that is not an object (an array, a string, null).
Bodies ==
    {[json |-> "undecodable", value |-> EmptyDict],
     [json |-> "other", value |-> EmptyDict]}
    \cup {[json |-> "object", value |-> d] : d \in ListBodies \cup OtherBodies}

\* The transport's answer to a request: no response at all, or a status and
\* a body.
Answers ==
    {[fault |-> TRUE, status |-> StatusOK,
      body |-> [json |-> "undecodable", value |-> EmptyDict]]}
    \cup [fault : {FALSE}, status : Statuses, body : Bodies]

NoAnswer ==
    [fault |-> FALSE, status |-> StatusOK,
     body |-> [json |-> "undecodable", value |-> EmptyDict]]

\* ------------------------------------------------------- make_request, its parts
\* isinstance(value, t); a bool is an int in Python.
IsInstance(value, t) ==
    value.type = t \/ (value.type = "bool" /\ t = "int")

\* ValidateParam that does not look at the declared options
ValidateParamIgnoresOptions(accepted, param, value) ==
    /\ param \in DOMAIN accepted
    /\ \E t \in accepted[param].type : IsInstance(value, t)

\* _validate_param: the name is accepted, the value has one of the declared
\* types and, where options are declared, is one of them.
ValidateParam(accepted, param, value) ==
    /\ param \in DOMAIN accepted
    /\ \E t \in accepted[param].type : IsInstance(value, t)
    /\ accepted[param].options.some
          => value.val \in accepted[param].options.value

\* filtered_params of make_request.
FilteredParams(accepted, params, validate_params) ==
    IF params.some /\ Truthy(params.value)
    THEN IF validate_params
         THEN Some([k \in {n \in DOMAIN params.value :
                             ValidateParam(accepted, n, params.value[n])}
                      |-> params.value[k]])
         ELSE params
    ELSE Nothing

\* CombineHeaders merging into settings.headers itself, not into a copy
CombineHeadersInPlace(s, i, c) ==
    LET with_self == IF Truthy(i) THEN DictUpdate(s, i) ELSE s
        with_call == IF c.some /\ Truthy(c.value)
                     THEN DictUpdate(with_self, c.value) ELSE with_self
    IN  [combined |-> with_call, settings |-> with_call]

\* combined_headers of make_request, and settings.headers afterwards: the
\* merge works on a copy.
CombineHeaders(s, i, c) ==
    LET copy == s
        with_self == IF Truthy(i) THEN DictUpdate(copy, i) ELSE copy
        with_call == IF c.some /\ Truthy(c.value)
                     THEN DictUpdate(with_self, c.value) ELSE with_self
    IN  [combined |-> with_call, settings |-> s]

\* What a call ends with.
NoListEnvelope ==
    [data |-> <<>>, not_found |-> <<>>, has_more |-> FALSE, total |-> None,
     next_page |-> None, next_page_url |-> Nothing]

Returned(shape, value, envelope) ==
    [status |-> "returned", exc |-> "none", shape |-> shape, value |-> value,
     envelope |-> envelope, error_details |-> EmptyDict]

Raised(exc, error_details) ==
    [status |-> "raised", exc |-> exc, shape |-> "none", value |-> EmptyDict,
     envelope |-> NoListEnvelope, error_details |-> error_details]

NoResult ==
    [status |-> "none", exc |-> "none", shape |-> "none", value |-> EmptyDict,
     envelope |-> NoListEnvelope, error_details |-> EmptyDict]

\* parse_qs(query)['page']: the values given for page, blank ones dropped.
PageValues(query) ==
    SelectSeq(query, LAMBDA p : p[1] = "page" /\ p[2] # <<>>)

DigitChars == <<"0", "1", "2", "3", "4", "5", "6", "7", "8", "9">>

IsDigits(v) == \A i \in 1..Len(v) : \E j \in 1..10 : DigitChars[j] = v[i]

\* int() of a string of decimal digits.
RECURSIVE IntOf(_)
IntOf(v) ==
    IF v = <<>> THEN 0
    ELSE IntOf(SubSeq(v, 1, Len(v) - 1)) * 10
         + (CHOOSE j \in 1..10 : DigitChars[j] = v[Len(v)]) - 1

\* ListEnvelope that looks for 'total' before 'total_cards'
ListEnvelopeTotalFirst(obj) ==
    LET has(k) == k \in DOMAIN obj
        has_more == IF has("has_more") THEN obj["has_more"] ELSE FALSE
        total == IF has("total") THEN obj["total"]
                 ELSE IF has("total_cards") THEN obj["total_cards"] ELSE None
        base == [data |-> IF has("data") THEN obj["data"] ELSE <<>>,
                 not_found |-> IF has("not_found") THEN obj["not_found"] ELSE <<>>,
                 has_more |-> has_more, total |-> total,
                 next_page |-> None, next_page_url |-> Nothing]
    IN  IF ~has("object") \/ obj["object"] # "list"
        THEN Raised("RuntimeError", EmptyDict)
        ELSE IF has_more /\ has("next_page")
        THEN LET pages == PageValues(obj["next_page"])
             IN  IF pages = <<>> THEN Raised("KeyError", EmptyDict)
                 ELSE IF ~IsDigits(pages[1][2]) THEN Raised("ValueError", EmptyDict)
                 ELSE Returned("list", obj,
                        [base EXCEPT !.next_page = IntOf(pages[1][2]),
                                     !.next_page_url = Some(obj["next_page"])])
        ELSE Returned("list", obj, base)

\* ScrypyfallList.__init__ on a decoded body: the envelope, or the exception
\* the constructor ends with.
ListEnvelope(obj) ==
    LET has(k) == k \in DOMAIN obj
        has_more == IF has("has_more") THEN obj["has_more"] ELSE FALSE
        total == IF has("total_cards") THEN obj["total_cards"]
                 ELSE IF has("total") THEN obj["total"] ELSE None
        base == [data |-> IF has("data") THEN obj["data"] ELSE <<>>,
                 not_found |-> IF has("not_found") THEN obj["not_found"] ELSE <<>>,
                 has_more |-> has_more, total |-> total,
                 next_page |-> None, next_page_url |-> Nothing]
    IN  IF ~has("object") \/ obj["object"] # "list"
        THEN Raised("RuntimeError", EmptyDict)
        ELSE IF has_more /\ has("next_page")
        THEN LET pages == PageValues(obj["next_page"])
             IN  IF pages = <<>> THEN Raised("KeyError", EmptyDict)
                 ELSE IF ~IsDigits(pages[1][2]) THEN Raised("ValueError", EmptyDict)
                 ELSE Returned("list", obj,
                        [base EXCEPT !.next_page = IntOf(pages[1][2]),
                                     !.next_page_url = Some(obj["next_page"])])
        ELSE Returned("list", obj, base)

\* ScrypyfallException.__init__ called through class cls: error_details is
\* {} updated with error_obj, which dict.update accepts when it is a dict and
\* refuses with ValueError when it is a message string.
NewScrypyfallException(cls, error_obj) ==
    IF error_obj.json = "object"
    THEN Raised(cls, DictUpdate(EmptyDict, error_obj.value))
    ELSE Raised("ValueError", EmptyDict)

\* A message string given where an error object is expected.
Message == [json |-> "string", value |-> EmptyDict]

\* The status check: with a status other than 200 the decoded body is
\* raised as a ScrypyfallException; jresp.get needs the body to be an object.
StatusError(body) ==
    IF body.json = "other"
    THEN Raised("AttributeError", EmptyDict)
    ELSE NewScrypyfallException("ScrypyfallException", body)

\* The classification of a decoded body by its 'object' field.
ClassifyResponse(body) ==
    IF body.json = "other" THEN Raised("TypeError", EmptyDict)
    ELSE IF "object" \notin DOMAIN body.value THEN Raised("KeyError", EmptyDict)
    ELSE IF body.value["object"] = "list" THEN ListEnvelope(body.value)
    ELSE IF body.value["object"] = "collection"
    THEN Returned("collection", body.value, NoListEnvelope)
    ELSE IF body.value["object"] = "catalog"
    THEN Returned("catalog", body.value, NoListEnvelope)
    ELSE Returned("single", body.value, NoListEnvelope)

\* HandleResponse with the status check ahead of the decode
HandleResponseStatusFirst(a) ==
    IF a.fault THEN Raised("ConnectionError", EmptyDict)
    ELSE IF a.status # StatusOK THEN StatusError(a.body)
    ELSE IF a.body.json = "undecodable" THEN Raised("RuntimeError", EmptyDict)
    ELSE ClassifyResponse(a.body)

\* make_request from the transport's answer on: decode, status check,
\* classification.
HandleResponse(a) ==
    IF a.fault THEN Raised("ConnectionError", EmptyDict)
    ELSE IF a.body.json = "undecodable" THEN Raised("RuntimeError", EmptyDict)
    ELSE IF a.status # StatusOK THEN StatusError(a.body)
    ELSE ClassifyResponse(a.body)

\* The loop body of CardsCollection.__init__: the entry makes it raise.
IdentifierRejected(ide) ==
    \/ ~ide.dict
    \/ \E k \in DOMAIN ide.value :
          \/ ide.value[k].type = "NoneType"
          \/ k \notin DOMAIN AllowedKeys
          \/ ~IsInstance(ide.value[k], AllowedKeys[k])
          \/ (k = "set" /\ "name" \notin DOMAIN ide.value
                        /\ "collector_number" \notin DOMAIN ide.value)

\* The exception class CardsCollection.__init__ raises for the list, or
\* "none".
CollectionCheck(identifiers) ==
    IF identifiers = <<>> THEN "ScrypyFallTooFewIdentifiersException"
    ELSE IF Len(identifiers) > MaxIdentifiers
    THEN "ScrypyFallTooManyIdentifiersException"
    ELSE IF \E i \in 1..Len(identifiers) : IdentifierRejected(identifiers[i])
    THEN "ScrypyFallInvalidIdentifiersException"
    ELSE "none"

\* The schema the running operation validates parameters against.
Accepted(c) == IF c = "named" THEN NamedAcceptedParams ELSE AcceptedParams

\* What the transport answers to a request for one card or one set: no
\* response, a body that is not a JSON object, the object, or an error
\* object.
CardAnswers ==
    {a \in Answers :
        a.body.json = "object" =>
            a.body.value \in {("object" :> "card"),
                              ("object" :> "error") @@ ("details" :> "not found")}}

\* What the transport can answer to the running operation: cards/named and
\* bulk-data/:id answer with one object or an error, not with an envelope;
\* so do the accessors of one card or one set; the rulings of a card are
\* answered like the card, or with a list.
AnswersTo(c) ==
    IF c \in {"named", "bulk"}
    THEN {a \in Answers :
            a.body.json = "object" =>
                ("object" \in DOMAIN a.body.value =>
                    a.body.value["object"] \notin {"list", "collection", "catalog"})}
    ELSE IF c \in {"tcgplayer", "byid", "codenumber", "number", "lang"}
    THEN CardAnswers
    ELSE IF c = "rulings"
    THEN CardAnswers
         \cup {a \in Answers :
                 /\ a.body.json = "object"
                 /\ a.body.value =
                      ("object" :> "list") @@ ("data" :> <<"a", "b">>)}
    ELSE Answers

\* CardsNamed.__init__ with only the first of its two checks
NamedRejectsNeitherOnly(kwargs) ==
    "exact" \notin DOMAIN kwargs /\ "fuzzy" \notin DOMAIN kwargs

\* CardsNamed.__init__ raises ValueError: neither of exact and fuzzy is among
\* the keyword arguments, or both are.
NamedRejects(kwargs) ==
    \/ ("exact" \notin DOMAIN kwargs /\ "fuzzy" \notin DOMAIN kwargs)
    \/ ("exact" \in DOMAIN kwargs /\ "fuzzy" \in DOMAIN kwargs)

\* {k: v for k, v in kwargs.items() if self._validate_param(k, v)}
ValidKwargs(accepted, kwargs) ==
    [k \in {n \in DOMAIN kwargs : ValidateParam(accepted, n, kwargs[n])}
        |-> kwargs[k]]

\* settings.lazy_loading as Settings.__init__ leaves it; no accessor has
\* been invoked
AIdle ==
    /\ lazy_loading = TRUE
    /\ accessor = "none"

\* the accessor objects as the package creates them
OIdle ==
    /\ self_url = NoURL
    /\ tcg_headers = EmptyDict
    /\ cn = [num |-> Nothing, lan |-> Nothing]
    /\ byid = [id |-> Nothing, data |-> Nothing]
    /\ held = Nothing

\* No operation of the request layer is running.
QIdle ==
    /\ self_data = <<>>
    /\ caller = "none"
    /\ args = NoArgs
    /\ mpc = "idle"
    /\ call = NoCall
    /\ outgoing = NoOutgoing
    /\ log = <<>>
    /\ answer = NoAnswer
    /\ result = NoResult

NoEnvelope == [shape |-> "none", data |-> <<>>]

\* the envelope a merge has read, as it is recorded in got, with the URL it
\* was requested from and whether the body it was built from reported a
\* total
Merged(resp) ==
    LET e == Classify(resp)
    IN [shape |-> e.shape,
        url |-> resp.url,
        data |-> e.data,
        not_found |-> e.not_found,
        has_more |-> e.has_more,
        total |-> e.total,
        next_page_url |-> e.next_page_url,
        total_values |-> e.total_values,
        reported |-> \/ resp.payload.total_cards # None
                     \/ resp.payload.total # None
                     \/ resp.payload.total_values # None]

\* MergePage with the List page put in front of the accumulated data
MergePagePrepend(r, e) ==
    LET m == IF e.shape = "list"
               THEN [r EXCEPT !.data = e.data \o r.data,
                              !.has_more = e.has_more,
                              !.next_page_url = e.next_page_url,
                              !.total = e.total]
             ELSE IF e.shape = "collection"
               THEN [r EXCEPT !.data = r.data \o e.data,
                              !.total = e.total_values]
             ELSE IF e.shape = "catalog"
               THEN [r EXCEPT !.data = e.data,
                              !.total = e.total_values]
             ELSE [r EXCEPT !.data = e.data,
                            !.has_more = FALSE]
    IN IF m.total = None /\ ~m.has_more
         THEN [m EXCEPT !.total = Len(m.data)]
         ELSE m

\* MergePage whose List branch keeps the cursor the resource held
MergePageKeepsCursor(r, e) ==
    LET m == IF e.shape = "list"
               THEN [r EXCEPT !.data = r.data \o e.data,
                              !.has_more = e.has_more,
                              !.total = e.total]
             ELSE IF e.shape = "collection"
               THEN [r EXCEPT !.data = r.data \o e.data,
                              !.total = e.total_values]
             ELSE IF e.shape = "catalog"
               THEN [r EXCEPT !.data = e.data,
                              !.total = e.total_values]
             ELSE [r EXCEPT !.data = e.data,
                            !.has_more = FALSE]
    IN IF m.total = None /\ ~m.has_more
         THEN [m EXCEPT !.total = Len(m.data)]
         ELSE m

\* MergePage whose last branch appends the object to the accumulated data
MergePageAppendsSingle(r, e) ==
    LET m == IF e.shape = "list"
               THEN [r EXCEPT !.data = r.data \o e.data,
                              !.has_more = e.has_more,
                              !.next_page_url = e.next_page_url,
                              !.total = e.total]
             ELSE IF e.shape = "collection"
               THEN [r EXCEPT !.data = r.data \o e.data,
                              !.total = e.total_values]
             ELSE IF e.shape = "catalog"
               THEN [r EXCEPT !.data = e.data,
                              !.total = e.total_values]
             ELSE [r EXCEPT !.data = r.data \o e.data,
                            !.has_more = FALSE]
    IN IF m.total = None /\ ~m.has_more
         THEN [m EXCEPT !.total = Len(m.data)]
         ELSE m

\* _get_data_page, the merge of a classified response (foundation.py 407-423)
MergePage(r, e) ==
    LET m == IF e.shape = "list"
               THEN [r EXCEPT !.data = r.data \o e.data,
                              !.has_more = e.has_more,
                              !.next_page_url = e.next_page_url,
                              !.total = e.total]
             ELSE IF e.shape = "collection"
               THEN [r EXCEPT !.data = r.data \o e.data,
                              !.total = e.total_values]
             ELSE IF e.shape = "catalog"
               THEN [r EXCEPT !.data = e.data,
                              !.total = e.total_values]
             ELSE [r EXCEPT !.data = e.data,
                            !.has_more = FALSE]
    IN IF m.total = None /\ ~m.has_more
         THEN [m EXCEPT !.total = Len(m.data)]
         ELSE m

\* CardsCollection._get_data_page, the merge (cards/_cards.py 447-450)
MergeCollectionPage(r, e) ==
    [r EXCEPT !.data = r.data \o e.data,
              !.total = Len(r.data \o e.data),
              !.not_found = e.not_found]

\* the early return of _get_data_page
SkipsFetch(k, r) ==
    IF k = "collection"
      THEN Len(r.data) > 0 \/ Len(r.not_found) > 0
      ELSE r.next_page_url = None /\ Len(r.data) > 0

\* the URL _get_data_page asks for
RequestURL(k, r) ==
    IF k = "collection" \/ r.next_page_url = None THEN BaseURL
    ELSE r.next_page_url

Outcome(r, e, q, g) ==
    [res |-> r, err |-> e, req |-> q, got |-> g, merged |-> g.shape # "none"]

\* GetDataPage that gives up its cursor before the request is answered
GetDataPageDropsCursor(k, r, has_payload, resp) ==
    IF SkipsFetch(k, r) THEN Outcome(r, "none", FALSE, NoEnvelope)
    ELSE IF k = "collection" /\ ~has_payload
      THEN Outcome(r, "ValueError", FALSE, NoEnvelope)
    ELSE IF resp.fault # "none"
      THEN Outcome([r EXCEPT !.next_page_url = None], resp.fault, TRUE,
                   NoEnvelope)
    ELSE IF k = "collection"
      THEN IF Classify(resp).shape = "list"
             THEN Outcome(MergeCollectionPage(r, Classify(resp)),
                          "none", TRUE, Merged(resp))
             ELSE Outcome(r, "RuntimeError", TRUE, NoEnvelope)
    ELSE Outcome(MergePage(r, Classify(resp)), "none", TRUE,
                 Merged(resp))

\* one call of _get_data_page, answered by resp when it sends a request
GetDataPage(k, r, has_payload, resp) ==
    IF SkipsFetch(k, r) THEN Outcome(r, "none", FALSE, NoEnvelope)
    ELSE IF k = "collection" /\ ~has_payload
      THEN Outcome(r, "ValueError", FALSE, NoEnvelope)
    ELSE IF resp.fault # "none"
      THEN Outcome(r, resp.fault, TRUE, NoEnvelope)
    ELSE IF k = "collection"
      THEN IF Classify(resp).shape = "list"
             THEN Outcome(MergeCollectionPage(r, Classify(resp)),
                          "none", TRUE, Merged(resp))
             ELSE Outcome(r, "RuntimeError", TRUE, NoEnvelope)
    ELSE Outcome(MergePage(r, Classify(resp)), "none", TRUE,
                 Merged(resp))

\* the outcomes one call of _get_data_page can have
GetDataPageOutcomes(k, r, has_payload) ==
    {o \in {GetDataPage(k, r, has_payload, resp) :
                resp \in Responses(k, RequestURL(k, r))} :
        Len(o.res.data) <= MaxData}

\* load(), before its loop
LoadEnter(r) ==
    IF r.next_page_url = None /\ Len(r.data) = 0
      THEN [r EXCEPT !.has_more = TRUE]
      ELSE r

\* GetItemFetches without the test of has_more
GetItemFetchesIgnoresHasMore(r, k) ==
    /\ k >= Len(r.data)
    /\ r.total # None
    /\ k < r.total

\* __getitem__: the condition that starts the fetch loop
GetItemFetches(r, k) ==
    /\ k >= Len(r.data)
    /\ r.has_more
    /\ r.total # None
    /\ k < r.total

\* self.data[key] of a Python list
InRange(d, k) == IF k >= 0 THEN k < Len(d) ELSE 0 - k <= Len(d)

ListItem(d, k) == IF k >= 0 THEN d[k + 1] ELSE d[Len(d) + k + 1]

Keys == (0 - 1)..(MaxTotal - 1)

PayloadArgs == IF kind = "collection" THEN BOOLEAN ELSE {FALSE}

Init ==
    /\ kind \in Kinds
    /\ res = FreshResource
    /\ pc = "idle"
    /\ op = "none"
    /\ payload = FALSE
    /\ key = 0
    /\ ret = NoValue
    /\ err = "none"
    /\ req = FALSE
    /\ got = NoEnvelope
    /\ fetched = FALSE
    /\ exhausted = FALSE
    /\ pre = FreshResource
    /\ covered = FALSE
    /\ chain = <<>>
    /\ eager = FreshResource
    /\ lazy = FreshResource
    /\ epc = "idle"
    /\ lpc = "idle"
    /\ settings_headers = EmptyDict
    /\ self_headers = EmptyDict
    /\ QIdle
    /\ AIdle
    /\ OIdle

\* what one call of _get_data_page with outcome o leaves behind
Fetch(o) ==
    /\ res' = o.res
    /\ err' = o.err
    /\ req' = o.req
    /\ got' = o.got
    /\ fetched' = (fetched \/ o.merged)
    /\ exhausted' = (exhausted \/ (o.merged /\ ~o.res.has_more))

\* a step that calls nothing
NoFetch ==
    /\ req' = FALSE
    /\ got' = NoEnvelope
    /\ UNCHANGED <<fetched, exhausted>>

\* the caller calls _get_data_page (as the accessors do when lazy_loading)
CallGetDataPage ==
    /\ pc = "idle"
    /\ \E hp \in PayloadArgs : \E o \in GetDataPageOutcomes(kind, res, hp) :
         /\ Fetch(o)
         /\ payload' = hp
    /\ pc' = "done"
    /\ op' = "_get_data_page"
    /\ UNCHANGED <<qvars, evars, kind, avars, ovars, key, ret, pre, covered>>

\* the caller calls load() (as the accessors do when lazy_loading is False)
CallLoad ==
    /\ pc = "idle"
    /\ \E hp \in PayloadArgs : payload' = hp
    /\ res' = LoadEnter(res)
    /\ pc' = "load"
    /\ op' = "load"
    /\ pre' = res
    /\ NoFetch
    /\ UNCHANGED <<qvars, evars, kind, avars, ovars, key, ret, err, covered>>

\* load(): while self.has_more
LoadTest ==
    /\ pc = "load"
    /\ res.has_more
    /\ pc' = "load_call"
    /\ NoFetch
    /\ UNCHANGED <<qvars, evars, kind, avars, ovars, res, op, payload, key, ret, err, pre, covered>>

\* load(): self._get_data_page(**kwargs)
LoadCall ==
    /\ pc = "load_call"
    /\ \E o \in GetDataPageOutcomes(kind, res, payload) :
         /\ Fetch(o)
         /\ pc' = IF o.err = "none" THEN "load" ELSE "done"
    /\ UNCHANGED <<qvars, evars, kind, avars, ovars, op, payload, key, ret, pre, covered>>

\* load() returns
LoadReturn ==
    /\ pc = "load"
    /\ ~res.has_more
    /\ pc' = "done"
    /\ NoFetch
    /\ UNCHANGED <<qvars, evars, kind, avars, ovars, res, op, payload, key, ret, err, pre, covered>>

\* iter(resource)
Iter ==
    /\ pc = "idle"
    /\ res' = [res EXCEPT !.iter_index = 0]
    /\ pc' = "done"
    /\ op' = "iter"
    /\ NoFetch
    /\ UNCHANGED <<qvars, evars, kind, avars, ovars, payload, key, ret, err, pre, covered>>

\* __next__: _iter_next
IterNext(r) == [r EXCEPT !.iter_index = r.iter_index + 1]

\* NextOutcome that calls _get_data_page whatever has_more is
NextOutcomeIgnoresHasMore(r, o) ==
    IF r.iter_index < Len(r.data)
      THEN [res |-> IterNext(r), ret |-> r.data[r.iter_index + 1],
            err |-> "none", called |-> FALSE]
    ELSE IF o.err # "none"
      THEN [res |-> o.res, ret |-> NoValue, err |-> o.err, called |-> TRUE]
    ELSE IF o.res.iter_index < Len(o.res.data)
      THEN [res |-> IterNext(o.res),
            ret |-> o.res.data[o.res.iter_index + 1],
            err |-> "none", called |-> TRUE]
    ELSE [res |-> o.res, ret |-> NoValue, err |-> "StopIteration",
          called |-> TRUE]

\* __next__, with o the outcome of the _get_data_page call it may make
NextOutcome(r, o) ==
    IF r.iter_index < Len(r.data)
      THEN [res |-> IterNext(r), ret |-> r.data[r.iter_index + 1],
            err |-> "none", called |-> FALSE]
    ELSE IF r.has_more
      THEN IF o.err # "none"
             THEN [res |-> o.res, ret |-> NoValue, err |-> o.err,
                   called |-> TRUE]
           ELSE IF o.res.iter_index < Len(o.res.data)
             THEN [res |-> IterNext(o.res),
                   ret |-> o.res.data[o.res.iter_index + 1],
                   err |-> "none", called |-> TRUE]
           ELSE [res |-> o.res, ret |-> NoValue, err |-> "StopIteration",
                 called |-> TRUE]
    ELSE [res |-> r, ret |-> NoValue, err |-> "StopIteration",
          called |-> FALSE]

\* next(resource)
Next ==
    /\ pc = "idle"
    /\ pc' = "done"
    /\ op' = "next"
    /\ \E o \in GetDataPageOutcomes(kind, res, FALSE) :
         LET n == NextOutcome(res, o)
         IN /\ res' = n.res
            /\ ret' = n.ret
            /\ err' = n.err
            /\ IF n.called
                 THEN /\ req' = o.req
                      /\ got' = o.got
                      /\ fetched' = (fetched \/ o.merged)
                      /\ exhausted' = (exhausted \/ (o.merged /\ ~o.res.has_more))
                 ELSE NoFetch
    /\ UNCHANGED <<qvars, evars, kind, avars, ovars, payload, key, pre, covered>>

\* __getitem__: return self.data[key], or IndexError
GetItemFinish(k) ==
    /\ pc' = "done"
    /\ IF InRange(res.data, k)
         THEN ret' = ListItem(res.data, k) /\ err' = "none"
         ELSE ret' = NoValue /\ err' = "IndexError"

\* resource[k]
CallGetItem ==
    /\ pc = "idle"
    /\ op' = "getitem"
    /\ \E k \in Keys :
         /\ key' = k
         /\ covered' = (res.total # None /\ 0 <= k /\ k < res.total)
         /\ IF GetItemFetches(res, k)
              THEN pc' = "getitem" /\ UNCHANGED <<ret, err>>
              ELSE GetItemFinish(k)
    /\ NoFetch
    /\ UNCHANGED <<qvars, evars, kind, avars, ovars, res, payload, pre>>

\* __getitem__: while key >= len(self.data)
GetItemTest ==
    /\ pc = "getitem"
    /\ IF key >= Len(res.data)
         THEN pc' = "getitem_call" /\ UNCHANGED <<ret, err>>
         ELSE GetItemFinish(key)
    /\ NoFetch
    /\ UNCHANGED <<qvars, evars, kind, avars, ovars, res, op, payload, key, pre, covered>>

\* __getitem__: self._get_data_page()
GetItemCall ==
    /\ pc = "getitem_call"
    /\ \E o \in GetDataPageOutcomes(kind, res, FALSE) :
         /\ Fetch(o)
         /\ pc' = IF o.err = "none" THEN "getitem" ELSE "done"
    /\ UNCHANGED <<qvars, evars, kind, avars, ovars, op, payload, key, ret, pre, covered>>

\* the operation's result or exception reaches the caller
Return ==
    /\ pc = "done"
    /\ pc' = "idle"
    /\ op' = "none"
    /\ payload' = FALSE
    /\ key' = 0
    /\ ret' = NoValue
    /\ err' = "none"
    /\ pre' = FreshResource
    /\ covered' = FALSE
    /\ NoFetch
    /\ UNCHANGED <<qvars, evars, kind, avars, ovars, res>>

Step ==
    \/ CallGetDataPage
    \/ CallLoad
    \/ LoadTest
    \/ LoadCall
    \/ LoadReturn
    \/ Iter
    \/ Next
    \/ CallGetItem
    \/ GetItemTest
    \/ GetItemCall
    \/ Return

Spec == Init /\ [][Step]_vars

\* a running operation is carried on: the caller runs one thread of control
FairSpec ==
    /\ Spec
    /\ WF_vars(LoadTest) /\ WF_vars(LoadCall) /\ WF_vars(LoadReturn)
    /\ WF_vars(GetItemTest) /\ WF_vars(GetItemCall)

\* ------------------------------------------------------- eager and lazy
\* the bodies the service serves in a chain of EqPages pages
EqPayloads(u) ==
    {b \in Payloads(u, EqPages, 0) :
        /\ b.total_cards = None
        /\ b.total_values = None
        /\ b.not_found = <<>>}

EqChains ==
    {c \in [BaseURL..EqPages -> UNION {EqPayloads(u) : u \in BaseURL..EqPages}] :
        \A u \in BaseURL..EqPages : c[u] \in EqPayloads(u)}

\* accumulated elements the model follows for eager and lazy
EqMaxData == EqPages * MaxPageLen

\* the answer of the chain to the request r makes
Served(r) ==
    [fault |-> "none", url |-> RequestURL(kind, r),
     payload |-> chain[RequestURL(kind, r)]]

EqInit ==
    /\ kind \in Kinds
    /\ res = FreshResource
    /\ pc = "idle"
    /\ op = "none"
    /\ payload = FALSE
    /\ key = 0
    /\ ret = NoValue
    /\ err = "none"
    /\ req = FALSE
    /\ got = NoEnvelope
    /\ fetched = FALSE
    /\ exhausted = FALSE
    /\ pre = FreshResource
    /\ covered = FALSE
    /\ chain \in EqChains
    /\ eager = FreshResource
    /\ lazy = FreshResource
    /\ epc = "start"
    /\ lpc = "start"
    /\ settings_headers = EmptyDict
    /\ self_headers = EmptyDict
    /\ QIdle
    /\ AIdle
    /\ OIdle

\* the accessor, lazy_loading False: self.load(...)
EagerLoad ==
    /\ epc = "start"
    /\ eager' = LoadEnter(eager)
    /\ epc' = "load"
    /\ UNCHANGED <<qvars, kind, avars, ovars, rvars, chain, lazy, lpc>>

\* load(): while self.has_more
EagerTest ==
    /\ epc = "load"
    /\ eager.has_more
    /\ epc' = "load_call"
    /\ UNCHANGED <<qvars, kind, avars, ovars, rvars, chain, eager, lazy, lpc>>

\* load(): self._get_data_page(**kwargs)
EagerCall ==
    /\ epc = "load_call"
    /\ LET o == GetDataPage(kind, eager, TRUE, Served(eager))
       IN /\ Len(o.res.data) <= EqMaxData
          /\ eager' = o.res
          /\ epc' = IF o.err = "none" THEN "load" ELSE "raised"
    /\ UNCHANGED <<qvars, kind, avars, ovars, rvars, chain, lazy, lpc>>

\* load() returns
EagerReturn ==
    /\ epc = "load"
    /\ ~eager.has_more
    /\ epc' = "done"
    /\ UNCHANGED <<qvars, kind, avars, ovars, rvars, chain, eager, lazy, lpc>>

\* the accessor, lazy_loading True: self._get_data_page(...)
LazyConstruct ==
    /\ epc = "done"
    /\ lpc = "start"
    /\ LET o == GetDataPage(kind, lazy, TRUE, Served(lazy))
       IN /\ lazy' = o.res
          /\ lpc' = IF o.err = "none" THEN "constructed" ELSE "raised"
    /\ UNCHANGED <<qvars, kind, avars, ovars, rvars, chain, eager, epc>>

\* iter(lazy)
LazyIter ==
    /\ lpc = "constructed"
    /\ lazy' = [lazy EXCEPT !.iter_index = 0]
    /\ lpc' = "iterating"
    /\ UNCHANGED <<qvars, kind, avars, ovars, rvars, chain, eager, epc>>

\* next(lazy), until StopIteration
LazyNext ==
    /\ lpc = "iterating"
    /\ LET n == NextOutcome(lazy, GetDataPage(kind, lazy, FALSE, Served(lazy)))
       IN /\ Len(n.res.data) <= EqMaxData
          /\ lazy' = n.res
          /\ lpc' = IF n.err = "none" THEN "iterating"
                    ELSE IF n.err = "StopIteration" THEN "stopped"
                    ELSE "raised"
    /\ UNCHANGED <<qvars, kind, avars, ovars, rvars, chain, eager, epc>>

EqStep ==
    \/ EagerLoad
    \/ EagerTest
    \/ EagerCall
    \/ EagerReturn
    \/ LazyConstruct
    \/ LazyIter
    \/ LazyNext

SpecEq == EqInit /\ [][EqStep]_vars

\* ------------------------------------------------------- the request layer
\* settings.headers is whatever the program set it to; no accessor exists
\* yet.
ApiInit ==
    /\ kind = "foundation"
    /\ res = FreshResource
    /\ pc = "idle"
    /\ op = "none"
    /\ payload = FALSE
    /\ key = 0
    /\ ret = NoValue
    /\ err = "none"
    /\ req = FALSE
    /\ got = NoEnvelope
    /\ fetched = FALSE
    /\ exhausted = FALSE
    /\ pre = FreshResource
    /\ covered = FALSE
    /\ chain = <<>>
    /\ eager = FreshResource
    /\ lazy = FreshResource
    /\ epc = "idle"
    /\ lpc = "idle"
    /\ settings_headers \in HeaderDicts("settings")
    /\ self_headers = EmptyDict
    /\ QIdle
    /\ AIdle
    /\ OIdle

\* make_request is called on an accessor whose headers the program has set.
MakeRequestCall ==
    /\ mpc = "idle"
    /\ caller' = "make_request"
    /\ self_headers' \in HeaderDicts("instance")
    /\ call' \in Calls
    /\ self_url' = BuildBaseUrl(<<"catalog">>)
    /\ mpc' = "prepare"
    /\ UNCHANGED <<kind, avars, hvars, rvars, evars, settings_headers, self_data,
                   args,                    outgoing, log, answer, result>>

\* "preparing request data": the parameters are filtered and the headers
\* merged.
Prepare ==
    /\ mpc = "prepare"
    /\ LET h == CombineHeaders(settings_headers, self_headers, call.headers)
       IN  /\ outgoing' =
                [url |-> IF call.uri.some /\ call.overwrite_url
                         THEN call.uri.value
                         ELSE BuildUrl(self_url, call.uri),
                 params |-> FilteredParams(Accepted(caller), call.params,
                                           call.validate_params),
                 headers |-> h.combined,
                 verb |-> "none",
                 body |-> NoBody]
           /\ settings_headers' = h.settings
    /\ mpc' = "sleep"
    /\ UNCHANGED <<kind, avars, ovars, rvars, evars, self_headers, self_data, args, caller,
                   call, log, answer, result>>

\* Sleep without the sleep
SleepSkipped ==
    /\ mpc = "sleep"
    /\ mpc' = "dispatch"
    /\ UNCHANGED <<kind, avars, ovars, rvars, evars, settings_headers, self_headers,
                   self_data, args, caller, call, outgoing, log, answer,
                   result>>

\* sleep(settings.sleep_time)
Sleep ==
    /\ mpc = "sleep"
    /\ log' = Append(log, "sleep")
    /\ mpc' = "dispatch"
    /\ UNCHANGED <<kind, avars, ovars, rvars, evars, settings_headers, self_headers,
                   self_data, args, caller, call, outgoing, answer, result>>

\* The dispatch on the method: requests.get, requests.post, or ValueError.
Dispatch ==
    /\ mpc = "dispatch"
    /\ IF Lower(call.method) \in {"get", "delete", "post", "put"}
       THEN /\ log' = Append(log, "request")
            /\ outgoing' =
                 [outgoing EXCEPT
                    !.verb = Verb(call.method),
                    !.body = RequestBody(call.method, call.data_payload,
                                         call.json_payload)]
            /\ mpc' = "sent"
            /\ UNCHANGED result
       ELSE /\ result' = Raised("ValueError", EmptyDict)
            /\ mpc' = "done"
            /\ UNCHANGED <<log, outgoing>>
    /\ UNCHANGED <<kind, avars, ovars, rvars, evars, settings_headers, self_headers,
                   self_data, args, caller, call, answer>>

\* The request is on the wire; neither its arguments nor the identifiers it
\* carries are used again.
Wait ==
    /\ mpc = "sent"
    /\ call' = NoCall
    /\ outgoing' = NoOutgoing
    /\ args' = [args EXCEPT !.identifiers = <<>>]
    /\ mpc' = "wait"
    /\ UNCHANGED <<kind, avars, ovars, rvars, evars, settings_headers, self_headers,
                   self_data, caller, log, answer, result>>

\* The transport answers.
Receive ==
    /\ mpc = "wait"
    /\ answer' \in AnswersTo(caller)
    /\ mpc' = "handle"
    /\ UNCHANGED <<kind, avars, ovars, rvars, evars, settings_headers, self_headers,
                   self_data, args, caller, call, outgoing, log, result>>

\* make_request decodes, checks the status, classifies, and returns or
\* raises.
Handle ==
    /\ mpc = "handle"
    /\ result' = HandleResponse(answer)
    /\ mpc' = IF caller = "make_request" \/ result'.status = "raised"
              THEN "done" ELSE "merge"
    /\ UNCHANGED <<kind, avars, ovars, rvars, evars, settings_headers, self_headers,
                   self_data, args, caller, call, outgoing, log, answer>>

\* The operation is over; its accessor is not used again.
Finish ==
    /\ mpc = "done"
    /\ self_url' = NoURL
    /\ self_headers' = EmptyDict
    /\ self_data' = <<>>
    /\ caller' = "none"
    /\ args' = NoArgs
    /\ mpc' = "idle"
    /\ call' = NoCall
    /\ outgoing' = NoOutgoing
    /\ log' = <<>>
    /\ answer' = NoAnswer
    /\ result' = NoResult
    /\ UNCHANGED <<kind, avars, hvars, rvars, evars, settings_headers>>

\* cards.named(**kwargs): CardsNamed(**kwargs)[0]
NamedCall ==
    /\ mpc = "idle"
    /\ caller' = "named"
    /\ args' \in [kwargs : NamedKwargs,
                  headers : {Nothing} \cup {Some(d) : d \in HeaderDicts("call")},
                  identifiers : {<<>>}]
    /\ self_headers' = EmptyDict
    /\ self_url' = BuildBaseUrl(<<"cards", "named">>)
    /\ mpc' = "validate"
    /\ UNCHANGED <<kind, avars, hvars, rvars, evars, settings_headers, self_data,
                   call,                    outgoing, log, answer, result>>

\* CardsNamed.__init__ up to its call of _get_data_page, and _get_data_page
\* up to its call of make_request.
NamedValidate ==
    /\ mpc = "validate"
    /\ caller = "named"
    /\ IF NamedRejects(args.kwargs)
       THEN /\ result' = Raised("ValueError", EmptyDict)
            /\ mpc' = "done"
            /\ UNCHANGED <<self_headers, call>>
       ELSE /\ self_headers' = IF args.headers.some
                               THEN DictUpdate(self_headers, args.headers.value)
                               ELSE self_headers
            /\ call' = [NoCall EXCEPT
                          !.params = Some(ValidKwargs(NamedAcceptedParams,
                                       ValidKwargs(NamedAcceptedParams, args.kwargs))),
                          !.validate_params = FALSE]
            /\ mpc' = "prepare"
            /\ UNCHANGED result
    /\ UNCHANGED <<kind, avars, ovars, rvars, evars, settings_headers, self_data, args,
                   caller, outgoing, log, answer>>

\* _get_data_page after make_request returned one object, and [0] of the
\* accessor.
NamedMerge ==
    /\ mpc = "merge"
    /\ caller = "named"
    /\ self_data' = <<result.value>>
    /\ result' = Returned("single", self_data'[1], NoListEnvelope)
    /\ mpc' = "done"
    /\ UNCHANGED <<kind, avars, ovars, rvars, evars, settings_headers, self_headers, args,
                   caller, call, outgoing, log, answer>>

\* CardsCollection(identifiers)
CollectionCall ==
    /\ mpc = "idle"
    /\ caller' = "collection"
    /\ args' \in [kwargs : {EmptyDict}, headers : {Nothing},
                  identifiers : IdentifierLists]
    /\ self_headers' = EmptyDict
    /\ self_url' = BuildBaseUrl(<<"cards", "collection">>)
    /\ mpc' = "validate"
    /\ UNCHANGED <<kind, avars, hvars, rvars, evars, settings_headers, self_data,
                   call,                    outgoing, log, answer, result>>

\* CardsCollection.__init__ up to its call of _get_data_page, and
\* _get_data_page up to its call of make_request.
CollectionValidate ==
    /\ mpc = "validate"
    /\ caller = "collection"
    /\ LET cls == CollectionCheck(args.identifiers)
       IN  IF cls # "none"
           THEN /\ result' = NewScrypyfallException(cls, Message)
                /\ mpc' = "done"
                /\ UNCHANGED call
           ELSE /\ call' = [NoCall EXCEPT
                              !.method = "post",
                              !.params = Some(EmptyDict),
                              !.validate_params = FALSE,
                              !.json_payload =
                                  Some("identifiers" :> args.identifiers)]
                /\ mpc' = "prepare"
                /\ UNCHANGED result
    /\ UNCHANGED <<kind, avars, ovars, rvars, evars, settings_headers, self_headers,
                   self_data, args, caller, outgoing, log, answer>>

\* CardsCollection._get_data_page after make_request returned.
CollectionMerge ==
    /\ mpc = "merge"
    /\ caller = "collection"
    /\ IF result.shape = "list"
       THEN /\ self_data' = result.envelope.data
            /\ UNCHANGED result
       ELSE /\ result' = Raised("RuntimeError", EmptyDict)
            /\ UNCHANGED self_data
    /\ mpc' = "done"
    /\ UNCHANGED <<kind, avars, ovars, rvars, evars, settings_headers, self_headers, args,
                   caller, call, outgoing, log, answer>>

\* BulkDataItem().get(identifier_type, identifier, format)
BulkCall ==
    /\ mpc = "idle"
    /\ caller' = "bulk"
    /\ args' \in [kwargs : BulkKwargs,
                  headers : {Nothing} \cup {Some(d) : d \in HeaderDicts("call")},
                  identifiers : {<<>>}]
    /\ self_headers' = EmptyDict
    /\ self_url' = BuildBaseUrl(<<"bulk-data">>)
    /\ mpc' = "validate"
    /\ UNCHANGED <<kind, avars, hvars, rvars, evars, settings_headers, self_data,
                   call,                    outgoing, log, answer, result>>

\* BulkDataItem.get up to its call of make_request.
BulkValidate ==
    /\ mpc = "validate"
    /\ caller = "bulk"
    /\ IF args.kwargs["identifier_type"].val \notin {"id", "type"}
       THEN /\ result' = Raised("ValueError", EmptyDict)
            /\ mpc' = "done"
            /\ UNCHANGED call
       ELSE /\ call' = [NoCall EXCEPT
                          !.uri = Some(<<"identifier">>),
                          !.headers = args.headers]
            /\ mpc' = "prepare"
            /\ UNCHANGED result
    /\ UNCHANGED <<kind, avars, ovars, rvars, evars, settings_headers, self_headers,
                   self_data, args, caller, outgoing, log, answer>>

\* BulkDataItem.get after make_request returned: the object is the result
\* for format 'json'; otherwise its download_uri is looked up.
BulkData ==
    /\ mpc = "merge"
    /\ caller = "bulk"
    /\ self_data' = <<result.value>>
    /\ IF args.kwargs["format"].val = "json"
       THEN mpc' = "done" /\ UNCHANGED result
       ELSE IF "download_uri" \notin DOMAIN result.value
       THEN mpc' = "done" /\ result' = Raised("KeyError", EmptyDict)
       ELSE mpc' = "download_sleep" /\ UNCHANGED result
    /\ UNCHANGED <<kind, avars, ovars, rvars, evars, settings_headers, self_headers, args,
                   caller, call, outgoing, log, answer>>

\* sleep(settings.sleep_time) of BulkDataItem.get
BulkSleep ==
    /\ mpc = "download_sleep"
    /\ log' = Append(log, "sleep")
    /\ mpc' = "download"
    /\ UNCHANGED <<kind, avars, ovars, rvars, evars, settings_headers, self_headers,
                   self_data, args, caller, call, outgoing, answer, result>>

\* The download: requests.get of the download_uri, raise_for_status, and
\* the file written; get returns nothing.
BulkDownload ==
    /\ mpc = "download"
    /\ log' = Append(log, "request")
    /\ \E outcome \in {"ok", "ConnectionError", "HTTPError"} :
          result' = IF outcome = "ok"
                    THEN Returned("none", EmptyDict, NoListEnvelope)
                    ELSE Raised(outcome, EmptyDict)
    /\ mpc' = "done"
    /\ UNCHANGED <<kind, avars, ovars, rvars, evars, settings_headers, self_headers,
                   self_data, args, caller, call, outgoing, answer>>

ApiStep ==
    \/ MakeRequestCall
    \/ BulkCall
    \/ BulkValidate
    \/ BulkData
    \/ BulkSleep
    \/ BulkDownload
    \/ CollectionCall
    \/ CollectionValidate
    \/ CollectionMerge
    \/ NamedCall
    \/ NamedValidate
    \/ NamedMerge
    \/ Prepare
    \/ Sleep
    \/ Dispatch
    \/ Wait
    \/ Receive
    \/ Handle
    \/ Finish

SpecApi == ApiInit /\ [][ApiStep]_vars

\* ------------------------------------------------------- properties
IsPrefix(a, b) == Len(a) <= Len(b) /\ SubSeq(b, 1, Len(a)) = a

\* a step that runs one call of _get_data_page from the caller or a loop
GetDataPageStep == CallGetDataPage \/ LoadCall \/ GetItemCall

\* C1: load() terminates: once load() has been entered, control comes back
\* to the caller, and when no request failed has_more is False by then.
LoadTerminates ==
    (pc = "load") ~> (pc = "done" /\ (err # "none" \/ ~res.has_more))

\* C2: idempotent exhaustion: once a fetch has left has_more False, a further
\* call of _get_data_page leaves data, total and has_more unchanged.
IdempotentExhaustion ==
    [][(GetDataPageStep /\ fetched /\ ~res.has_more)
         => /\ res'.data = res.data
            /\ res'.total = res.total
            /\ res'.has_more = res.has_more]_vars

\* C3: once a completed fetch has left has_more False, no later step of any
\* operation on the resource sends a request.
NoRequestAfterExhaustion == [][exhausted => ~req']_vars

\* C6: resource[i] terminates: once the fetch loop of __getitem__ has been
\* entered, the element or an exception reaches the caller.
GetItemTerminates == (pc = "getitem") ~> (pc = "done")

\* C7: whenever total is known, the accumulated data holds at most total
\* elements.
DataWithinTotal == res.total # None => Len(res.data) <= res.total

\* C8: once total is known, no step decreases it or resets it to unknown.
TotalNeverDecreases ==
    [][res.total # None
         => (res'.total # None /\ res'.total >= res.total)]_vars

\* C9: the accumulated data is append-only: the data held before a step is a
\* prefix of the data held after it.
DataAppendOnly == [][IsPrefix(res.data, res'.data)]_vars

\* C9 (amended): a step that merges a List page (or, for CardsCollection, its
\* answer) or a Collection response appends the response's data, in order,
\* to the data held before; a step that merges nothing leaves data as it
\* was; a Catalog or Single response replaces the data.
DataAppendOnlyForLists ==
    [][/\ got'.shape \in {"list", "collection"}
            => res'.data = res.data \o got'.data
       /\ got'.shape \in {"catalog", "single"} => res'.data = got'.data
       /\ got'.shape = "none" => res'.data = res.data]_vars

\* a List page has been appended to data that held elements already
AppendedToData ==
    /\ got.shape = "list"
    /\ Len(got.data) > 0
    /\ Len(res.data) > Len(got.data)

\* exceptions raised by a request or by the handling of its answer
FetchErrors == Faults \cup {"RuntimeError"}

\* data, has_more, total and the cursor of a and b agree
SameFetchState(a, b) ==
    /\ a.data = b.data
    /\ a.has_more = b.has_more
    /\ a.total = b.total
    /\ a.next_page_url = b.next_page_url

\* C10: when a request of _get_data_page or load() raises, data, has_more,
\* total and the cursor are what they were before the operation started.
FailedFetchRestoresStart ==
    [][/\ (op' = "_get_data_page" /\ req' /\ err' \in FetchErrors)
            => SameFetchState(res', res)
       /\ (pc' = "done" /\ op' = "load" /\ req' /\ err' \in FetchErrors)
            => SameFetchState(res', pre')]_vars

\* C10 (amended): a step whose request raises leaves the whole resource as
\* it was when that call of _get_data_page began.
FailedFetchChangesNothing ==
    [][(req' /\ err' \in FetchErrors) => res' = res]_vars

\* load() has raised on a later page, after it had merged an earlier one
LoadFailedAfterMerge ==
    /\ pc = "done"
    /\ op = "load"
    /\ req
    /\ err \in FetchErrors
    /\ Len(res.data) > Len(pre.data)

\* C5: for a resource whose total is known and 0 <= i < total, resource[i]
\* does not raise and returns the element at position i of the data, which
\* is what a traversal yields at position i (a request that fails aside).
IndexConsistent ==
    (pc = "done" /\ op = "getitem" /\ covered /\ err \notin FetchErrors)
      => (err = "none" /\ key < Len(res.data) /\ ret = res.data[key + 1])

\* C4: for the same pages, load() ends with the data that a lazily
\* constructed resource holds once it has been traversed to StopIteration.
EagerEqualsLazy ==
    (epc = "done" /\ lpc = "stopped") => eager.data = lazy.data

\* ------------------------------------------------------- properties of the request layer
\* make_request dispatched a request and the transport answered it.
Answered == log # <<>> /\ log[Len(log)] = "request" /\ ~answer.fault

\* C11: a response with a status other than success whose body decodes as
\* JSON ends the call with ScrypyfallException, and error_details is the
\* decoded body; nothing is returned.
ErrorStatusRaisesApiError ==
    (mpc = "done" /\ Answered /\ answer.status # StatusOK
        /\ answer.body.json # "undecodable")
    => (/\ result.status = "raised"
        /\ result.exc = "ScrypyfallException"
        /\ answer.body.json = "object"
        /\ result.error_details = answer.body.value)

\* C12: a body that does not decode ends make_request with RuntimeError
\* whatever the status code is, and no envelope is produced.
UndecodableBodyRaisesRuntimeError ==
    (mpc = "done" /\ Answered /\ answer.body.json = "undecodable")
    => (/\ result.status = "raised"
        /\ result.exc = "RuntimeError"
        /\ result.shape = "none"
        /\ result.envelope = NoListEnvelope)

UndecodableErrorResponseHandled ==
    /\ mpc = "done"
    /\ Answered
    /\ answer.body.json = "undecodable"
    /\ answer.status # StatusOK
    /\ result.exc = "RuntimeError"

\* C13: a name lookup given both exact and fuzzy, or neither, ends with
\* ValueError before any sleep or request; given exactly one it sleeps and
\* issues the request and, when the answer is a single object, returns that
\* object.
NamedExclusivity ==
    (caller = "named" /\ mpc = "done")
    => IF ("exact" \in DOMAIN args.kwargs) = ("fuzzy" \in DOMAIN args.kwargs)
       THEN result.status = "raised" /\ result.exc = "ValueError" /\ log = <<>>
       ELSE /\ log = <<"sleep", "request">>
            /\ (/\ ~answer.fault
                /\ answer.status = StatusOK
                /\ answer.body.json = "object"
                /\ "object" \in DOMAIN answer.body.value)
               => (/\ result.status = "returned"
                   /\ result.shape = "single"
                   /\ result.value = answer.body.value)

NamedBothRejected ==
    /\ caller = "named"
    /\ mpc = "done"
    /\ "exact" \in DOMAIN args.kwargs
    /\ "fuzzy" \in DOMAIN args.kwargs
    /\ result.exc = "ValueError"
    /\ log = <<>>

\* The library's validation errors for identifier lists.
IdentifierErrors ==
    {"ScrypyFallTooFewIdentifiersException",
     "ScrypyFallTooManyIdentifiersException",
     "ScrypyFallInvalidIdentifiersException"}

\* The rules for an identifier list: 1 to MaxIdentifiers entries, each a dict
\* whose keys are identifier keys, whose values have the key's type and are
\* not None, with 'set' only next to 'name' or 'collector_number'.
MeetsIdentifierRules(identifiers) ==
    /\ Len(identifiers) \in 1..MaxIdentifiers
    /\ \A i \in 1..Len(identifiers) :
          LET ide == identifiers[i]
          IN  /\ ide.dict
              /\ \A k \in DOMAIN ide.value :
                    /\ k \in DOMAIN AllowedKeys
                    /\ ide.value[k].type = AllowedKeys[k]
              /\ "set" \in DOMAIN ide.value
                    => ("name" \in DOMAIN ide.value
                         \/ "collector_number" \in DOMAIN ide.value)

\* C14: a collection lookup whose identifier list breaks the rules ends with
\* one of the identifier validation errors before anything is sent, and a
\* list that meets the rules goes on to the POST request.
CollectionValidation ==
    (caller = "collection" /\ mpc \in {"prepare", "sleep", "dispatch", "sent", "done"}
        /\ (mpc = "done" => log = <<>>))
    => IF MeetsIdentifierRules(args.identifiers)
       THEN mpc # "done" /\ call.method = "post"
       ELSE /\ mpc = "done"
            /\ result.status = "raised"
            /\ result.exc \in IdentifierErrors

\* C15: within an operation every network call comes directly after a
\* throttle sleep, and that sleep is the only one since the call before.
ThrottledRequests ==
    \A i \in 1..Len(log) :
        log[i] = "request"
        => (/\ i > 1
            /\ log[i - 1] = "sleep"
            /\ (i > 2 => log[i - 2] # "sleep"))

BulkFileDownloaded ==
    /\ caller = "bulk"
    /\ mpc = "done"
    /\ log = <<"sleep", "request", "sleep", "request">>
    /\ result.status = "returned"

\* The headers of three layers, the later layer winning a shared name.
LayeredHeaders(s, i, c) ==
    [n \in DOMAIN s \cup DOMAIN i \cup DOMAIN c |->
        IF n \in DOMAIN c THEN c[n] ELSE IF n \in DOMAIN i THEN i[n] ELSE s[n]]

\* C16: the headers a request is prepared with are settings.headers overlaid
\* with the accessor's headers overlaid with the per-call headers, and no
\* step of any operation changes settings.headers.
HeaderMerge ==
    [][/\ settings_headers' = settings_headers
       /\ mpc = "prepare"
          => outgoing'.headers =
                LayeredHeaders(settings_headers, self_headers,
                               IF call.headers.some THEN call.headers.value
                               ELSE EmptyDict)]_vars

AllLayersSetOneHeader ==
    /\ mpc = "sent"
    /\ call.headers.some
    /\ \E n \in HeaderNames :
          /\ n \in DOMAIN settings_headers
          /\ n \in DOMAIN self_headers
          /\ n \in DOMAIN call.headers.value
          /\ outgoing.headers[n] = "call"
    /\ \E n \in HeaderNames :
          /\ n \in DOMAIN settings_headers
          /\ n \in DOMAIN self_headers
          /\ n \notin DOMAIN call.headers.value
          /\ outgoing.headers[n] = "instance"

\* The parameters a prepared request carries, None being no parameters.
SentParams == IF outgoing.params.some THEN outgoing.params.value ELSE EmptyDict

\* The parameters make_request was given.
InputParams == IF call.params.some THEN call.params.value ELSE EmptyDict

\* C17: with validation enabled the parameters sent are the input parameters
\* whose name is accepted, whose value is of a declared type and, where
\* options are declared, is one of them; with validation bypassed the
\* parameters sent are the input parameters.
ParameterFiltering ==
    (mpc = "sent" /\ caller = "make_request")
    => IF call.validate_params
       THEN /\ DOMAIN SentParams =
                 {n \in DOMAIN InputParams :
                    /\ n \in DOMAIN AcceptedParams
                    /\ \E t \in AcceptedParams[n].type :
                          IsInstance(InputParams[n], t)
                    /\ AcceptedParams[n].options.some
                          => InputParams[n].val \in AcceptedParams[n].options.value}
            /\ \A n \in DOMAIN SentParams : SentParams[n] = InputParams[n]
       ELSE SentParams = InputParams

OptionOutsideDropped ==
    /\ mpc = "sent"
    /\ caller = "make_request"
    /\ call.validate_params
    /\ "format" \in DOMAIN InputParams
    /\ InputParams["format"].val = "yaml"
    /\ "format" \notin DOMAIN SentParams

\* C18: a request whose filtered parameter set is empty is dispatched with
\* None for its parameters, not with an empty dict.
EmptyParamsSentAsNone ==
    mpc = "sent" => (outgoing.params.some => Truthy(outgoing.params.value))

\* C19: a successful response whose body is a JSON object is classified by
\* its 'object' field: 'list', 'collection' and 'catalog' give the envelope
\* of that name, and any other value or no 'object' field gives the body
\* itself, returned without raising.
ClassificationByObject ==
    (mpc = "done" /\ caller = "make_request" /\ Answered
        /\ answer.status = StatusOK /\ answer.body.json = "object")
    => LET obj == answer.body.value
           tag == IF "object" \in DOMAIN obj THEN obj["object"] ELSE "absent"
       IN  IF tag = "list" THEN result = ListEnvelope(obj)
           ELSE IF tag \in {"collection", "catalog"}
           THEN result.status = "returned" /\ result.shape = tag
           ELSE /\ result.status = "returned"
                /\ result.shape = "single"
                /\ result.value = obj

\* The i-th pair of the URL's query is its 'page' parameter: the first pair
\* named page that has a value.
IsPageParameter(url, i) ==
    /\ url[i][1] = "page" /\ url[i][2] # <<>>
    /\ \A j \in 1..(i - 1) : ~(url[j][1] = "page" /\ url[j][2] # <<>>)

\* The URL names a page: it has a 'page' parameter and that is a decimal
\* integer.
NamesPage(url) ==
    \E i \in 1..Len(url) : IsPageParameter(url, i) /\ IsDigits(url[i][2])

\* C20: of a list body, total is 'total_cards' if present, else 'total', else
\* None; has_more is the field, False when absent; with has_more true and a
\* next_page URL that names a page the cursor is that page number and the
\* URL is kept, and without has_more or without next_page there is no
\* cursor.
ListEnvelopeParsing ==
    (mpc = "done" /\ caller = "make_request" /\ Answered
        /\ answer.status = StatusOK /\ answer.body.json = "object"
        /\ "object" \in DOMAIN answer.body.value
        /\ answer.body.value["object"] = "list")
    => LET obj == answer.body.value
           has(k) == k \in DOMAIN obj
           follows == has("has_more") /\ obj["has_more"] /\ has("next_page")
           env == result.envelope
       IN  (follows => NamesPage(obj["next_page"]))
           => /\ result.status = "returned"
              /\ result.shape = "list"
              /\ env.total = IF has("total_cards") THEN obj["total_cards"]
                             ELSE IF has("total") THEN obj["total"] ELSE None
              /\ env.has_more = (has("has_more") /\ obj["has_more"])
              /\ IF follows
                 THEN /\ env.next_page_url = Some(obj["next_page"])
                      /\ \E i \in 1..Len(obj["next_page"]) :
                            /\ IsPageParameter(obj["next_page"], i)
                            /\ env.next_page = IntOf(obj["next_page"][i][2])
                 ELSE env.next_page = None /\ env.next_page_url = Nothing

\* The example: {object: 'list', data: [a, b], has_more: true,
\* next_page: '...?page=2'} gives total None, has_more True, page 2.
ExampleListParsed ==
    /\ mpc = "done"
    /\ caller = "make_request"
    /\ answer.body.json = "object"
    /\ answer.body.value =
          [object |-> "list", data |-> <<"a", "b">>, has_more |-> TRUE,
           next_page |-> << <<"page", <<"2">>>> >>]
    /\ result.envelope.total = None
    /\ result.envelope.has_more
    /\ result.envelope.next_page = 2

\* ------------------------------------------------------- properties of traversal and merging
\* the page merged by the last step is a List page with has_more true and
\* no next_page
MalformedPageMerged ==
    /\ got.shape = "list"
    /\ got.has_more
    /\ got.next_page_url = None

\* C21: a List page with has_more true and no next_page exhausts the
\* resource: a load() or resource[i] that has merged such a page comes back
\* to the caller.
MalformedPageExhausts ==
    (MalformedPageMerged /\ pc \in {"load", "getitem"}) ~> (pc = "done")

\* the resources one call of _get_data_page() can leave behind
AfterOneAttempt == {o.res : o \in GetDataPageOutcomes(kind, res, FALSE)}

\* C22: iter(resource) puts the position back to 0; next() within the
\* accumulated data returns the element at the position and moves on by
\* one, without a request; at the end of the data next() raises
\* StopIteration without a request when has_more is False, and makes one
\* call of _get_data_page when has_more is True, after which it returns the
\* element at the position if there is one and raises StopIteration if
\* there is none (a call that raises aside).
SequentialIteration ==
    [][/\ (pc = "idle" /\ op' = "iter") => res'.iter_index = 0
       /\ (pc = "idle" /\ op' = "next") =>
            /\ res.iter_index < Len(res.data) =>
                 /\ ~req'
                 /\ res' = IterNext(res)
                 /\ ret' = res.data[res.iter_index + 1]
                 /\ err' = "none"
            /\ (res.iter_index >= Len(res.data) /\ ~res.has_more) =>
                 /\ ~req'
                 /\ res' = res
                 /\ err' = "StopIteration"
            /\ (res.iter_index >= Len(res.data) /\ res.has_more) =>
                 /\ [res' EXCEPT !.iter_index = res.iter_index]
                      \in AfterOneAttempt
                 /\ err' \in {"none", "StopIteration"} =>
                      IF res.iter_index < Len(res'.data)
                        THEN /\ err' = "none"
                             /\ ret' = res'.data[res.iter_index + 1]
                             /\ res'.iter_index = res.iter_index + 1
                        ELSE /\ err' = "StopIteration"
                             /\ res'.iter_index = res.iter_index]_vars

\* next() has asked for a page that added no element, and raised
\* StopIteration
NextStoppedAfterAttempt ==
    /\ pc = "done"
    /\ op = "next"
    /\ req
    /\ got.shape = "list"
    /\ err = "StopIteration"

\* load() was called on a resource that a fetch had left with has_more
\* False (only a merge makes total known)
LoadedWhenExhausted == op = "load" /\ ~pre.has_more /\ pre.total # None

\* C23: load() on a resource that a fetch has left with has_more False is
\* a no-op: no step of it sends a request, and it ends with the data,
\* has_more, total and cursor it started with.
LoadOnExhaustedIsNoOp ==
    [][LoadedWhenExhausted
         => /\ ~req'
            /\ pc' = "done" => SameFetchState(res', pre)]_vars

\* the step has merged, in the inherited _get_data_page, an envelope of
\* shape s
MergedShape(s) == kind = "foundation" /\ got'.shape = s

\* C24: a step that merges a List page appends the page's data to the
\* accumulated data and gives has_more, the cursor and total the page's
\* values (a total the page left unknown is closed to len(data) by the
\* assignment that follows the merge when has_more is False); not_found is
\* left alone, and so is the position unless next() moves it.
ListPageMerge ==
    [][MergedShape("list")
         => /\ res'.data = res.data \o got'.data
            /\ res'.has_more = got'.has_more
            /\ res'.next_page_url = got'.next_page_url
            /\ \/ res'.total = got'.total
               \/ /\ got'.total = None
                  /\ ~got'.has_more
                  /\ res'.total = Len(res'.data)
            /\ res'.not_found = res.not_found
            /\ op' # "next" => res'.iter_index = res.iter_index]_vars

\* the last List page has been merged into a resource that held data and
\* a cursor: has_more and the cursor are the page's, False and None
ListPageReplacedCursor ==
    /\ kind = "foundation"
    /\ got.shape = "list"
    /\ ~got.has_more
    /\ got.next_page_url = None
    /\ got.total # None
    /\ ~res.has_more
    /\ res.next_page_url = got.next_page_url
    /\ res.total = got.total
    /\ Len(got.data) > 0
    /\ Len(res.data) > Len(got.data)

\* C25: a step that merges a Collection or a Catalog response sets total to
\* the response's total_values, leaves the resource without a cursor and
\* with has_more False.
ValuesMergeEndsPaging ==
    [][(MergedShape("collection") \/ MergedShape("catalog"))
         => /\ res'.total = got'.total_values
            /\ res'.next_page_url = None
            /\ ~res'.has_more]_vars

\* C26: a step that merges a response that is neither a List, a Collection
\* nor a Catalog replaces the accumulated data by the one-element sequence
\* holding that object, and leaves has_more False.
SingleMergeReplacesData ==
    [][MergedShape("single")
         => /\ Len(res'.data) = 1
            /\ res'.data = got'.data
            /\ ~res'.has_more]_vars

\* a single object has replaced the data of a resource that held a List
\* page and expected more
SingleReplacedListData ==
    /\ kind = "foundation"
    /\ got.shape = "single"
    /\ pc = "load"
    /\ Len(pre.data) = 0
    /\ res.next_page_url # None
    /\ res.data = got.data

\* C27: after every merge (the collection lookup's included) has_more False
\* implies that total is known, and when the answer reported no total and
\* has_more is False, total is len(data).
ExhaustedKnowsTotal ==
    [][got'.shape # "none"
         => /\ ~res'.has_more => res'.total # None
            /\ (~res'.has_more /\ ~got'.reported)
                 => res'.total = Len(res'.data)]_vars

\* C28: in every state reached after a merge, has_more False implies that
\* the resource holds no cursor.
ExhaustedHasNoCursor ==
    (fetched /\ ~res.has_more) => res.next_page_url = None

\* C29: the fetches of a resource are chained: the first page merged comes
\* from the base URL, and every page merged after it comes from the cursor
\* the resource held, the next_page of the page merged before, never from
\* the base URL again.
ChainedFetches ==
    [][(kind = "foundation" /\ got'.shape # "none")
         => IF fetched
              THEN got'.url = res.next_page_url /\ got'.url # BaseURL
              ELSE got'.url = BaseURL]_vars

\* C30: resource[i] enters its fetch loop, the only place where it sends a
\* request, only when i >= len(data), has_more is True, total is known and
\* i < total; in every other case it sends no request and leaves the
\* resource as it was, returns data[i] when i is within the data and raises
\* IndexError when i is at or beyond its end.
GetItemFetchesOnlyWhenCovered ==
    [][/\ (op' = "getitem" /\ req') => pc = "getitem_call"
       /\ (pc = "idle" /\ op' = "getitem") =>
            IF /\ key' >= Len(res.data)
               /\ res.has_more
               /\ res.total # None
               /\ key' < res.total
              THEN pc' = "getitem"
              ELSE /\ pc' = "done"
                   /\ ~req'
                   /\ res' = res
                   /\ (0 <= key' /\ key' < Len(res.data))
                        => (err' = "none" /\ ret' = res.data[key' + 1])
                   /\ key' >= Len(res.data)
                        => (err' = "IndexError" /\ ret' = NoValue)]_vars

\* resource[i] has raised IndexError without a fetch, although has_more is
\* True: total is unknown, or i is not below it
GetItemRaisedWithoutFetch ==
    /\ pc = "done"
    /\ op = "getitem"
    /\ err = "IndexError"
    /\ ~covered
    /\ key >= Len(res.data)
    /\ res.has_more

\* a traversal is in progress: it has yielded elements and the accumulated
\* data holds more
TraversalInProgress ==
    res.iter_index > 0 /\ res.iter_index < Len(res.data)

\* C37: two traversals of one resource are independent: an iter() that
\* starts a second traversal while a first one is in progress leaves the
\* element that the first traversal yields next as it was.
TraversalsIndependent ==
    [][(pc = "idle" /\ op' = "iter" /\ TraversalInProgress)
         => res'.data[res'.iter_index + 1] = res.data[res.iter_index + 1]]_vars

\* ------------------------------------------------------- the paginated accessors
\* settings.lazy_loading is whatever the program set it to; the accessor is
\* about to be invoked.
AccessInit ==
    /\ accessor \in {"search", "named", "rulings", "oracle", "collection",
                      "symbology", "sets"}
    /\ lazy_loading \in BOOLEAN
    /\ kind = IF accessor = "collection" THEN "collection" ELSE "foundation"
    /\ res = FreshResource
    /\ pc = "idle"
    /\ op = "none"
    /\ payload = FALSE
    /\ key = 0
    /\ ret = NoValue
    /\ err = "none"
    /\ req = FALSE
    /\ got = NoEnvelope
    /\ fetched = FALSE
    /\ exhausted = FALSE
    /\ pre = FreshResource
    /\ covered = FALSE
    /\ chain = <<>>
    /\ eager = FreshResource
    /\ lazy = FreshResource
    /\ epc = "idle"
    /\ lpc = "idle"
    /\ settings_headers = EmptyDict
    /\ self_headers = EmptyDict
    /\ QIdle
    /\ OIdle

\* the outcomes of the accessor's own _get_data_page call: cards/named
\* answers with one object or an error, not with an envelope
ConstructOutcomes ==
    LET outs == GetDataPageOutcomes(kind, res, accessor = "collection")
    IN IF accessor = "named"
         THEN {o \in outs : o.got.shape \in {"none", "single"}}
         ELSE outs

\* The accessor is invoked on a resource that holds nothing yet: it calls
\* load(), or _get_data_page() once.
Construct ==
    /\ pc = "idle"
    /\ res = FreshResource
    /\ ~fetched
    /\ op' = "accessor"
    /\ payload' = (accessor = "collection")
    /\ IF accessor = "sets" \/ ~lazy_loading
         THEN /\ res' = LoadEnter(res)
              /\ pc' = "load"
              /\ pre' = res
              /\ NoFetch
              /\ UNCHANGED err
         ELSE /\ \E o \in ConstructOutcomes : Fetch(o)
              /\ pc' = "done"
              /\ UNCHANGED pre
    /\ UNCHANGED <<qvars, evars, kind, avars, ovars, key, ret, covered>>

\* cards.named: [0] of the resource CardsNamed has built has not been taken
NamedIndexDue ==
    /\ pc = "done"
    /\ op = "accessor"
    /\ accessor = "named"
    /\ err = "none"
    /\ ~covered
    /\ ret = NoValue

\* cards.named: CardsNamed(**kwargs)[0]
NamedIndex ==
    /\ NamedIndexDue
    /\ key' = 0
    /\ covered' = TRUE
    /\ IF GetItemFetches(res, 0)
         THEN pc' = "getitem" /\ UNCHANGED <<ret, err>>
         ELSE GetItemFinish(0)
    /\ NoFetch
    /\ UNCHANGED <<qvars, evars, kind, avars, ovars, res, op, payload, pre>>

\* the accessor, or a later operation on its resource, returns to the
\* caller
AccessReturn == ~NamedIndexDue /\ Return

AccessStep ==
    \/ Construct
    \/ NamedIndex
    \/ LoadTest
    \/ LoadCall
    \/ LoadReturn
    \/ Iter
    \/ Next
    \/ CallGetItem
    \/ GetItemTest
    \/ GetItemCall
    \/ AccessReturn

SpecAccess == AccessInit /\ [][AccessStep]_vars

\* C31: with settings.lazy_loading True, an invoked accessor sends one
\* request before it returns: none after its resource has merged an
\* answer, and it does not return normally without a merge.
LazyFetchesOnce ==
    [][(lazy_loading /\ op = "accessor")
         => /\ fetched => ~req'
            /\ (pc' = "idle" /\ err = "none") => fetched]_vars

\* ------------------------------------------------------- the dispatch of make_request
\* make_request as a catalog accessor calls it on the package's foundation
\* object, with the keyword arguments of the caller: the method is one of
\* the four make_request knows, in lower or in mixed case, or one it does
\* not know; a payload is None, an empty dict or a dict with an entry.
DispatchCalls ==
    [ method : {"get", "delete", "post", "put", "patch",
                "GET", "Delete", "POST", "Put"},
      uri : {Some(<<"card-names">>), Some(<<"", "card-names">>)},
      overwrite_url : BOOLEAN,
      params : {Nothing} \cup {Some(d) : d \in {e \in ParamDicts :
                                                  DOMAIN e \subseteq {"pretty"}}},
      validate_params : BOOLEAN,
      headers : {Nothing},
      data_payload : {Nothing, Some(EmptyDict), Some("card" :> "form")},
      json_payload : {Nothing, Some(EmptyDict), Some("card" :> "json")} ]

DispatchCall ==
    /\ mpc = "idle"
    /\ caller' = "make_request"
    /\ self_url' = BuildBaseUrl(<<"catalog">>)
    /\ call' \in DispatchCalls
    /\ mpc' = "prepare"
    /\ UNCHANGED <<kind, avars, hvars, rvars, evars, settings_headers,
                   self_headers, self_data, args, outgoing, log, answer,
                   result>>

DispatchStep ==
    \/ DispatchCall
    \/ Prepare
    \/ Sleep
    \/ Dispatch
    \/ Wait
    \/ Receive
    \/ Handle
    \/ Finish

SpecDispatch == ApiInit /\ [][DispatchStep]_vars

\* C32: a request made with method get or delete carries no body; a request
\* made with method post or put carries the form payload when data_payload
\* is given, otherwise the JSON payload when json_payload is given,
\* otherwise no body; the filtered parameters travel as the query string.
BodyDispatch ==
    mpc = "sent"
    => /\ Lower(call.method) \in {"get", "delete"} => outgoing.body = NoBody
       /\ Lower(call.method) \in {"post", "put"}
             => outgoing.body =
                  IF call.data_payload.some
                  THEN [kind |-> "form", value |-> call.data_payload.value]
                  ELSE IF call.json_payload.some
                  THEN [kind |-> "json", value |-> call.json_payload.value]
                  ELSE NoBody
       /\ outgoing.params = FilteredParams(AcceptedParams, call.params,
                                           call.validate_params)

\* The HTTP verb a method names.
VerbNamed ==
    [get |-> "GET", delete |-> "DELETE", post |-> "POST", put |-> "PUT"]

\* C35: the verb dispatched to the transport is the one the method names,
\* whatever its case; any other method raises ValueError and no request is
\* made.
VerbIsMethod ==
    /\ mpc = "sent" => outgoing.verb = VerbNamed[Lower(call.method)]
    /\ (mpc = "done" /\ Lower(call.method) \notin DOMAIN VerbNamed)
          => /\ result.status = "raised"
             /\ result.exc = "ValueError"
             /\ \A i \in 1..Len(log) : log[i] # "request"

\* ------------------------------------------------------- the accessor objects
\* The set code a caller passes.
Code == "war"

\* The headers argument of an accessor call.
CallHeaders == {Nothing} \cup {Some(d) : d \in HeaderDicts("call")}

\* The arguments of an accessor call: the named one and the headers.
ObjectArgs(name, value, headers) ==
    [kwargs |-> (name :> [type |-> "str", val |-> value]),
     headers |-> headers,
     identifiers |-> <<>>]

\* sets.tcgplayer(id, headers), sets.tcgplayer.id(id, headers):
\* SetsTcgplayer.id updates the object's headers with those of the call and
\* passes them to SetsTcgplayerId.__init__, which puts them into the headers
\* of the new accessor and calls make_request(uri=str(id)).
TcgplayerCall ==
    /\ mpc = "idle"
    /\ caller' = "tcgplayer"
    /\ \E h \in CallHeaders :
          /\ args' = ObjectArgs("id", "1", h)
          /\ tcg_headers' = DictUpdate(tcg_headers,
                                       IF h.some /\ Truthy(h.value)
                                       THEN h.value ELSE EmptyDict)
    /\ self_url' = BuildBaseUrl(<<"sets", "tcgplayer">>)
    /\ self_headers' = DictUpdate(EmptyDict, tcg_headers')
    /\ call' = [NoCall EXCEPT !.uri = Some(<<"1">>)]
    /\ mpc' = "prepare"
    /\ UNCHANGED <<kind, avars, cn, byid, held, rvars, evars, settings_headers,
                   self_data, outgoing, log, answer, result>>

\* cards(id, **kwargs), cards.id(id, **kwargs): CardsById.__call__ of the
\* object cards._scryfall, up to its call of make_request.
ByIdCall ==
    /\ mpc = "idle"
    /\ caller' = "byid"
    /\ \E i \in {"a", "b"}, h \in CallHeaders :
          /\ args' = ObjectArgs("id", i, h)
          /\ byid' = [byid EXCEPT !.id = Some(i)]
          /\ call' = [NoCall EXCEPT !.uri = Some(<<i>>),
                                    !.headers = h,
                                    !.validate_params = FALSE]
    /\ held' = IF byid.data.some THEN Some(byid) ELSE Nothing
    /\ self_url' = BuildBaseUrl(<<"cards">>)
    /\ self_headers' = EmptyDict
    /\ mpc' = "prepare"
    /\ UNCHANGED <<kind, avars, tcg_headers, cn, rvars, evars,
                   settings_headers, self_data, outgoing, log, answer,
                   result>>

\* CardsById.__call__ after make_request returned: self.data is assigned
\* and the object itself is returned.
ByIdMerge ==
    /\ mpc = "merge"
    /\ caller = "byid"
    /\ byid' = [byid EXCEPT !.data = Some(result.value)]
    /\ mpc' = "done"
    /\ UNCHANGED <<kind, avars, self_url, tcg_headers, cn, held, rvars, evars,
                   settings_headers, self_headers, self_data, args, caller,
                   call, outgoing, log, answer, result>>

\* _request_wrapper(**kwargs) up to its call of make_request, for keyword
\* arguments none of which is an accepted parameter.
RequestWrapper(c) ==
    /\ self_url' = BuildBaseUrl(<<"cards", Code, c.num.value>>
                                \o (IF c.lan.some THEN <<c.lan.value>>
                                    ELSE <<>>))
    /\ call' = [NoCall EXCEPT !.validate_params = FALSE]
    /\ mpc' = "prepare"
    /\ UNCHANGED result

\* The operation raises before anything is requested.
RaisesAtOnce(exc) ==
    /\ result' = Raised(exc, EmptyDict)
    /\ mpc' = "done"
    /\ UNCHANGED <<self_url, call>>

\* CardsCodeNumber(code, number=, lang=): the request is made when the
\* number is given and not empty.
CodeNumberNew ==
    /\ mpc = "idle"
    /\ caller' = "codenumber"
    /\ \E n \in {Nothing, Some(""), Some("15")}, l \in {Nothing, Some("ja")} :
          /\ cn' = [num |-> n, lan |-> l]
          /\ args' = NoArgs
          /\ IF n.some /\ n.value # ""
             THEN RequestWrapper(cn')
             ELSE /\ result' = Returned("none", EmptyDict, NoListEnvelope)
                  /\ mpc' = "done"
                  /\ UNCHANGED <<self_url, call>>
    /\ self_headers' = EmptyDict
    /\ UNCHANGED <<kind, avars, tcg_headers, byid, held, rvars, evars,
                   settings_headers, self_data, outgoing, log, answer>>

\* number(number)
CodeNumberNumber ==
    /\ mpc = "idle"
    /\ caller' = "number"
    /\ \E n \in {"15"} :
          /\ args' = ObjectArgs("number", n, Nothing)
          /\ cn' = [cn EXCEPT !.num = Some(n)]
    /\ RequestWrapper(cn')
    /\ self_headers' = EmptyDict
    /\ UNCHANGED <<kind, avars, tcg_headers, byid, held, rvars, evars,
                   settings_headers, self_data, outgoing, log, answer>>

\* CodeNumberLang without the test of the number
CodeNumberLangUnchecked ==
    /\ mpc = "idle"
    /\ caller' = "lang"
    /\ \E l \in {"ja"} :
          /\ args' = ObjectArgs("lang", l, Nothing)
          /\ cn' = [cn EXCEPT !.lan = Some(l)]
    /\ RequestWrapper([num |-> IF cn.num.some THEN cn.num ELSE Some("None"),
                       lan |-> cn'.lan])
    /\ self_headers' = EmptyDict
    /\ UNCHANGED <<kind, avars, tcg_headers, byid, held, rvars, evars,
                   settings_headers, self_data, outgoing, log, answer>>

\* lang(lang): the language is kept, then the number is tested.
CodeNumberLang ==
    /\ mpc = "idle"
    /\ caller' = "lang"
    /\ \E l \in {"ja"} :
          /\ args' = ObjectArgs("lang", l, Nothing)
          /\ cn' = [cn EXCEPT !.lan = Some(l)]
    /\ IF ~cn.num.some THEN RaisesAtOnce("RuntimeError")
       ELSE RequestWrapper(cn')
    /\ self_headers' = EmptyDict
    /\ UNCHANGED <<kind, avars, tcg_headers, byid, held, rvars, evars,
                   settings_headers, self_data, outgoing, log, answer>>

\* rulings(): the number is tested, then CardsRulings('code', code=, number=)
\* up to the call of make_request its _get_data_page makes.
CodeNumberRulings ==
    /\ mpc = "idle"
    /\ caller' = "rulings"
    /\ args' = NoArgs
    /\ IF ~cn.num.some THEN RaisesAtOnce("RuntimeError")
       ELSE /\ self_url' = BuildBaseUrl(<<"cards", Code, cn.num.value, "rulings">>)
            /\ call' = [NoCall EXCEPT !.params = Some(EmptyDict),
                                      !.validate_params = FALSE]
            /\ mpc' = "prepare"
            /\ UNCHANGED result
    /\ self_headers' = EmptyDict
    /\ UNCHANGED <<kind, avars, hvars, rvars, evars, settings_headers,
                   self_data, outgoing, log, answer>>

\* What make_request returned is kept as the data of the accessor: as
\* self.data by SetsTcgplayerId.__init__ and _request_wrapper, as the first
\* page by CardsRulings._get_data_page.
ObjectMerge ==
    /\ mpc = "merge"
    /\ caller \in {"tcgplayer", "codenumber", "number", "lang", "rulings"}
    /\ self_data' = IF caller = "rulings" /\ result.shape = "list"
                    THEN result.envelope.data
                    ELSE <<result.value>>
    /\ mpc' = "done"
    /\ UNCHANGED <<kind, avars, ovars, rvars, evars, settings_headers,
                   self_headers, args, caller, call, outgoing, log, answer,
                   result>>

ObjectStep ==
    \/ TcgplayerCall
    \/ ByIdCall
    \/ ByIdMerge
    \/ CodeNumberNew
    \/ CodeNumberNumber
    \/ CodeNumberLang
    \/ CodeNumberRulings
    \/ ObjectMerge
    \/ Prepare
    \/ Sleep
    \/ Dispatch
    \/ Wait
    \/ Receive
    \/ Handle
    \/ Finish

SpecObjects == ApiInit /\ [][ObjectStep]_vars

\* C33: headers passed to one call are used for that call only: a request
\* carries a per-call header only if the call it is made for passed it,
\* through sets.tcgplayer as through every other accessor.
PerCallHeadersNotKept ==
    mpc = "sent"
    => \A n \in DOMAIN outgoing.headers :
          outgoing.headers[n] = "call"
          => args.headers.some /\ n \in DOMAIN args.headers.value

\* C34: on a CardsCodeNumber object whose number has not been set, lang()
\* and rulings() raise RuntimeError without a throttle sleep or a request;
\* number(n) sets the number to n, after which lang(l) requests
\* cards/<code>/<n>/<l> and rulings() requests cards/<code>/<n>/rulings.
CodeNumberNeedsNumber ==
    [][/\ (mpc = "idle" /\ ~cn.num.some /\ caller' \in {"lang", "rulings"})
             => /\ mpc' = "done"
                /\ result'.status = "raised"
                /\ result'.exc = "RuntimeError"
                /\ log' = <<>>
       /\ (mpc = "idle" /\ caller' = "number")
             => cn'.num = Some(args'.kwargs["number"].val)
       /\ (mpc' = "sent" /\ caller' = "lang")
             => outgoing'.url =
                  BuildBaseUrl(<<"cards", Code, cn'.num.value,
                                 args'.kwargs["lang"].val>>)
       /\ (mpc' = "sent" /\ caller' = "rulings")
             => outgoing'.url =
                  BuildBaseUrl(<<"cards", Code, cn'.num.value, "rulings">>)]_vars

LangRaisedWithoutNumber ==
    /\ caller = "lang"
    /\ mpc = "done"
    /\ ~cn.num.some
    /\ cn.lan = Some("ja")
    /\ result.exc = "RuntimeError"
    /\ log = <<>>

\* C36: the object a by-ID lookup returned still holds its id and data
\* after a later lookup with another id, or a later failing lookup, through
\* the same accessor.
LookupsIndependent ==
    (/\ mpc = "done"
     /\ caller = "byid"
     /\ held.some
     /\ \/ held.value.id # Some(args.kwargs["id"].val)
        \/ result.status = "raised")
    => byid = held.value

====
